---- MODULE Spec2Model ----
(***************************************************************************)
(* Model of the MMDB build of BGP.Tools-OpenDB: the Go driver              *)
(* lib/mmdbwriter/main.go (main, processCSVFile) and the JavaScript stage  *)
(* that feeds it (parseTableData, separateByIPVersion, convertToCSV).      *)
(*                                                                         *)
(* Texts are sequences of one-character strings, so that parsing,          *)
(* trimming and formatting are computed and not assumed.  Numbers that may *)
(* exceed 31 bits (autonomous system numbers) are kept as canonical        *)
(* decimal digit sequences.                                                *)
(***************************************************************************)
EXTENDS Integers, Sequences, FiniteSets, TLC

----------------------------------------------------------------------------
(* Bounds of the model *)

\* largest number of lines of a CSV file handed directly to the Go binary
MaxLines == 3

\* largest number of JSONL entries handed to generateMMDB
MaxEntries == 2

----------------------------------------------------------------------------
(* Texts *)

Digits == <<"0", "1", "2", "3", "4", "5", "6", "7", "8", "9">>

IsDigit(c) == \E i \in 1..10 : Digits[i] = c

DigitVal(c) == (CHOOSE i \in 1..10 : Digits[i] = c) - 1

HexDigits == <<"0", "1", "2", "3", "4", "5", "6", "7", "8", "9",
               "a", "b", "c", "d", "e", "f">>

UpperHex == <<"A", "B", "C", "D", "E", "F">>

IsHex(c) == (\E i \in 1..16 : HexDigits[i] = c) \/ (\E i \in 1..6 : UpperHex[i] = c)

HexVal(c) ==
    IF \E i \in 1..16 : HexDigits[i] = c
    THEN (CHOOSE i \in 1..16 : HexDigits[i] = c) - 1
    ELSE (CHOOSE i \in 1..6 : UpperHex[i] = c) + 9

\* index of the first occurrence of character c in text s, 0 when absent
RECURSIVE IndexFrom(_, _, _)
IndexFrom(s, c, i) ==
    IF i > Len(s) THEN 0
    ELSE IF s[i] = c THEN i
    ELSE IndexFrom(s, c, i + 1)

IndexByte(s, c) == IndexFrom(s, c, 1)

\* the fields of s separated by character c (strings.Split / String.split)
RECURSIVE Split(_, _)
Split(s, c) ==
    LET i == IndexByte(s, c)
    IN  IF i = 0 THEN <<s>>
        ELSE <<SubSeq(s, 1, i - 1)>> \o Split(SubSeq(s, i + 1, Len(s)), c)

RECURSIVE TrimLeft(_)
TrimLeft(s) ==
    IF s # <<>> /\ Head(s) = " " THEN TrimLeft(Tail(s)) ELSE s

RECURSIVE TrimRight(_)
TrimRight(s) ==
    IF s # <<>> /\ s[Len(s)] = " " THEN TrimRight(SubSeq(s, 1, Len(s) - 1))
    ELSE s

TrimSpace(s) == TrimRight(TrimLeft(s))

\* canonical decimal digits: leading zeros removed, zero is <<"0">>
RECURSIVE StripZeros(_)
StripZeros(d) ==
    IF Len(d) > 1 /\ Head(d) = "0" THEN StripZeros(Tail(d)) ELSE d

\* a < b or a = b for canonical digit sequences of equal length
RECURSIVE LexLeq(_, _)
LexLeq(a, b) ==
    IF a = <<>> THEN TRUE
    ELSE IF DigitVal(Head(a)) < DigitVal(Head(b)) THEN TRUE
    ELSE IF DigitVal(Head(a)) > DigitVal(Head(b)) THEN FALSE
    ELSE LexLeq(Tail(a), Tail(b))

DecLeq(a, b) ==
    \/ Len(a) < Len(b)
    \/ Len(a) = Len(b) /\ LexLeq(a, b)

\* 2^32 - 1
MaxUint32 == <<"4", "2", "9", "4", "9", "6", "7", "2", "9", "5">>

Zero == <<"0">>

\* strconv.ParseUint(s, 10, 32): digits only, no sign, value at most 2^32-1
ParseUint(s) ==
    IF s = <<>> \/ \E i \in 1..Len(s) : ~IsDigit(s[i])
    THEN [ok |-> FALSE, val |-> Zero]
    ELSE LET v == StripZeros(s)
         IN  IF DecLeq(v, MaxUint32) THEN [ok |-> TRUE, val |-> v]
             ELSE [ok |-> FALSE, val |-> MaxUint32]

\* decimal text of a small natural number (template literal `${n}`)
RECURSIVE NumberToText(_)
NumberToText(n) ==
    IF n < 10 THEN <<Digits[n + 1]>>
    ELSE NumberToText(n \div 10) \o <<Digits[(n % 10) + 1]>>

\* value of a short decimal digit text, capped to stay a small number
RECURSIVE DecValue(_, _)
DecValue(s, acc) ==
    IF s = <<>> THEN acc
    ELSE DecValue(Tail(s),
                  IF acc > 9999 THEN acc ELSE acc * 10 + DigitVal(Head(s)))

RECURSIVE HexValue(_, _)
HexValue(s, acc) ==
    IF s = <<>> THEN acc ELSE HexValue(Tail(s), acc * 16 + HexVal(Head(s)))

T_network == <<"n", "e", "t", "w", "o", "r", "k">>

T_asn == <<"a", "s", "n">>

T_organization == <<"o", "r", "g", "a", "n", "i", "z", "a", "t", "i", "o", "n">>

T_hits == <<"h", "i", "t", "s">>

T_Net1 == <<"1", ".", "0", ".", "0", ".", "0", "/", "2", "4">>

T_Net1Host == <<" ", "1", ".", "0", ".", "0", ".", "5", "/", "2", "4">>

T_Net1Half == <<"1", ".", "0", ".", "0", ".", "1", "2", "8", "/", "2", "5">>

T_Net8 == <<"8", ".", "8", ".", "8", ".", "0", "/", "2", "4">>

T_NetBad == <<"9", "9", "9", ".", "1", ".", "1", ".", "1", "/", "2", "4">>

T_NetPrivate == <<"1", "0", ".", "0", ".", "0", ".", "0", "/", "8">>

T_Net6 == <<"2", "6", "0", "6", ":", "4", "7", "0", "0", ":", ":", "/", "3", "2">>

T_13335 == <<"1", "3", "3", "3", "5">>

T_13335sp == <<" ", "1", "3", "3", "3", "5", " ">>

T_15169 == <<"1", "5", "1", "6", "9">>

T_64512 == <<"6", "4", "5", "1", "2">>

T_0 == <<"0">>

T_TooBig == <<"4", "2", "9", "4", "9", "6", "7", "2", "9", "6">>

T_AS13335 == <<"A", "S", "1", "3", "3", "3", "5">>

T_Cloudflare == <<"C", "l", "o", "u", "d", "f", "l", "a", "r", "e", " ", "I", "n", "c">>

T_CloudflareSp == <<"C", "l", "o", "u", "d", "f", "l", "a", "r", "e", " ", "I", "n", "c", " ">>

T_Google == <<"G", "o", "o", "g", "l", "e", " ", "L", "L", "C">>

T_Blank == <<" ">>

----------------------------------------------------------------------------
(* Address space: net.ParseCIDR as called by processCSVFile *)

RECURSIVE Pow2(_)
Pow2(n) == IF n = 0 THEN 1 ELSE 2 * Pow2(n - 1)

\* width in bits of one address part: octets for IPv4, 16-bit groups for IPv6
PartBits(fam) == IF fam = "v4" THEN 8 ELSE 16

BitLen(fam) == IF fam = "v4" THEN 32 ELSE 128

\* number of leading bits of part i kept by a mask of length len
KeptBits(fam, i, len) ==
    LET w == PartBits(fam)
        k == len - (i - 1) * w
    IN  IF k < 0 THEN 0 ELSE IF k > w THEN w ELSE k

\* IP.Mask(CIDRMask(len, bits)): zero every bit beyond len
MaskAddr(fam, addr, len) ==
    [i \in 1..Len(addr) |->
        addr[i] - (addr[i] % Pow2(PartBits(fam) - KeptBits(fam, i, len)))]

AllDigits(s) == s # <<>> /\ \A i \in 1..Len(s) : IsDigit(s[i])

\* one dotted-quad field: digits, no leading zero, value at most 255
ValidOctet(f) ==
    /\ AllDigits(f)
    /\ Len(f) <= 3
    /\ (Len(f) = 1 \/ Head(f) # "0")
    /\ DecValue(f, 0) <= 255

ParseIPv4(s) ==
    LET f == Split(s, ".")
    IN  IF Len(f) = 4 /\ \A i \in 1..4 : ValidOctet(f[i])
        THEN [ok |-> TRUE, fam |-> "v4",
              addr |-> [i \in 1..4 |-> DecValue(f[i], 0)]]
        ELSE [ok |-> FALSE, fam |-> "v4", addr |-> <<>>]

\* one colon-hex group: one to four hexadecimal digits
ValidGroup(g) ==
    /\ g # <<>>
    /\ Len(g) <= 4
    /\ \A i \in 1..Len(g) : IsHex(g[i])

\* index of the first "::" of s, 0 when absent
RECURSIVE EllipsisFrom(_, _)
EllipsisFrom(s, i) ==
    IF i >= Len(s) THEN 0
    ELSE IF s[i] = ":" /\ s[i + 1] = ":" THEN i
    ELSE EllipsisFrom(s, i + 1)

Groups(s) == IF s = <<>> THEN <<>> ELSE Split(s, ":")

\* colon-hex text with at most one "::"; texts with an embedded dotted quad
\* or a zone are not among the inputs of this model
ParseIPv6(s) ==
    LET e     == EllipsisFrom(s, 1)
        left  == IF e = 0 THEN Groups(s) ELSE Groups(SubSeq(s, 1, e - 1))
        right == IF e = 0 THEN <<>> ELSE Groups(SubSeq(s, e + 2, Len(s)))
        n     == Len(left) + Len(right)
        bad   == [ok |-> FALSE, fam |-> "v6", addr |-> <<>>]
    IN  IF \/ \E i \in 1..Len(left) : ~ValidGroup(left[i])
           \/ \E i \in 1..Len(right) : ~ValidGroup(right[i])
           \/ (e = 0 /\ n # 8)
           \/ (e # 0 /\ n > 7)
        THEN bad
        ELSE [ok |-> TRUE, fam |-> "v6",
              addr |-> [i \in 1..8 |->
                          IF i <= Len(left) THEN HexValue(left[i], 0)
                          ELSE IF i > 8 - Len(right)
                               THEN HexValue(right[i - (8 - Len(right))], 0)
                               ELSE 0]]

\* netip.ParseAddr: the first '.' or ':' of the text selects the family
RECURSIVE ParseAddrFrom(_, _)
ParseAddrFrom(s, i) ==
    IF i > Len(s) THEN [ok |-> FALSE, fam |-> "v4", addr |-> <<>>]
    ELSE IF s[i] = "." THEN ParseIPv4(s)
    ELSE IF s[i] = ":" THEN ParseIPv6(s)
    ELSE IF s[i] = "%" THEN [ok |-> FALSE, fam |-> "v6", addr |-> <<>>]
    ELSE ParseAddrFrom(s, i + 1)

ParseAddr(s) == ParseAddrFrom(s, 1)

NoPrefix == [fam |-> "v4", addr |-> <<>>, len |-> 0]

\* the text of a sequence of texts joined by the text sep
RECURSIVE JoinWith(_, _)
JoinWith(parts, sep) ==
    IF Len(parts) = 0 THEN <<>>
    ELSE IF Len(parts) = 1 THEN parts[1]
    ELSE parts[1] \o sep \o JoinWith(Tail(parts), sep)

\* lower-case hexadecimal text of n without leading zeros
RECURSIVE HexText(_)
HexText(n) ==
    IF n < 16 THEN <<HexDigits[n + 1]>>
    ELSE HexText(n \div 16) \o <<HexDigits[(n % 16) + 1]>>

\* number of consecutive zero groups of addr from group i on
RECURSIVE ZeroRun(_, _)
ZeroRun(addr, i) ==
    IF i > 8 \/ addr[i] # 0 THEN 0 ELSE 1 + ZeroRun(addr, i + 1)

\* first group of the longest run of two or more zero groups, 0 when none
ZeroStart(addr) ==
    LET longest == CHOOSE n \in 0..8 :
                      /\ \E i \in 1..8 : ZeroRun(addr, i) = n
                      /\ \A i \in 1..8 : ZeroRun(addr, i) <= n
    IN  IF longest < 2 THEN 0
        ELSE CHOOSE i \in 1..8 :
                /\ ZeroRun(addr, i) = longest
                /\ \A j \in 1..(i - 1) : ZeroRun(addr, j) < longest

\* text of a 16-byte address that is not IPv4-mapped: groups in lower-case
\* hexadecimal, the longest run of zero groups written "::"
String6(addr) ==
    LET hex == [i \in 1..8 |-> HexText(addr[i])]
        zs  == ZeroStart(addr)
        ze  == zs + ZeroRun(addr, zs)
    IN  IF zs = 0 THEN JoinWith(hex, <<":">>)
        ELSE JoinWith(SubSeq(hex, 1, zs - 1), <<":">>)
             \o <<":", ":">>
             \o JoinWith(SubSeq(hex, ze, 8), <<":">>)

\* the address is in ::ffff:0:0/96
Is4In6(addr) ==
    /\ Len(addr) = 8
    /\ \A i \in 1..5 : addr[i] = 0
    /\ addr[6] = 65535

\* IP.To4: the four bytes of an IPv4 or IPv4-mapped address, <<>> otherwise
To4(fam, addr) ==
    IF fam = "v4" THEN addr
    ELSE IF Is4In6(addr)
    THEN << addr[7] \div 256, addr[7] % 256, addr[8] \div 256, addr[8] % 256 >>
    ELSE <<>>

\* (*net.IPNet).String of a parsed prefix: an address that has a four-byte
\* form is written as a dotted quad with the ones of the last four mask bytes
IPNetString(c) ==
    LET ip4 == To4(c.fam, c.addr)
    IN  IF ip4 # <<>> /\ c.fam = "v6" /\ c.len < 96
        THEN <<"<", "n", "i", "l", ">">>
        ELSE IF ip4 # <<>>
        THEN JoinWith([i \in 1..4 |-> NumberToText(ip4[i])], <<".">>)
             \o <<"/">>
             \o NumberToText(IF c.fam = "v4" THEN c.len
                             ELSE IF c.len > 96 THEN c.len - 96 ELSE 0)
        ELSE String6(c.addr) \o <<"/">> \o NumberToText(c.len)

\* variant: the address is returned as parsed, host bits included
ParseCIDRNoMask(s) ==
    LET i == IndexByte(s, "/")
    IN  IF i = 0 THEN [ok |-> FALSE, cidr |-> NoPrefix]
        ELSE LET a == ParseAddr(SubSeq(s, 1, i - 1))
                 m == SubSeq(s, i + 1, Len(s))
             IN  IF a.ok /\ AllDigits(m) /\ DecValue(m, 0) <= BitLen(a.fam)
                 THEN [ok |-> TRUE,
                       cidr |-> [fam |-> a.fam, addr |-> a.addr,
                                 len |-> DecValue(m, 0)]]
                 ELSE [ok |-> FALSE, cidr |-> NoPrefix]

\* net.ParseCIDR(network): the network part of the result (host bits masked)
ParseCIDR(s) ==
    LET i == IndexByte(s, "/")
    IN  IF i = 0 THEN [ok |-> FALSE, cidr |-> NoPrefix]
        ELSE LET a == ParseAddr(SubSeq(s, 1, i - 1))
                 m == SubSeq(s, i + 1, Len(s))
             IN  IF a.ok /\ AllDigits(m) /\ DecValue(m, 0) <= BitLen(a.fam)
                 THEN [ok |-> TRUE,
                       cidr |-> [fam |-> a.fam,
                                 addr |-> MaskAddr(a.fam, a.addr, DecValue(m, 0)),
                                 len |-> DecValue(m, 0)]]
                 ELSE [ok |-> FALSE, cidr |-> NoPrefix]

\* prefix a contains prefix b
Contains(a, b) ==
    /\ a.fam = b.fam
    /\ a.len <= b.len
    /\ MaskAddr(b.fam, b.addr, a.len) = a.addr

\* address x of family fam lies inside prefix p
Covers(p, fam, x) == p.fam = fam /\ MaskAddr(fam, x, p.len) = p.addr

----------------------------------------------------------------------------
(* Records and the prefix tree of the writer *)

EmptyMap == [k \in {} |-> <<>>]

ASNKey == "autonomous_system_number"

OrgKey == "autonomous_system_organization"

\* the mmdbtype.Map built by processCSVFile for a row whose ASN parsed to asn
BuildRecord(row, asn) ==
    LET numPart == IF asn # Zero THEN (ASNKey :> asn) ELSE EmptyMap
        orgPart == IF Len(row) >= 3 /\ TrimSpace(row[3]) # <<>>
                   THEN (OrgKey :> TrimSpace(row[3]))
                   ELSE EmptyMap
    IN  numPart @@ orgPart

EmptyTree == [p \in {} |-> EmptyMap]

\* variant: the record already attached at p is kept (first write wins)
TrieInsertKeepFirst(t, p, r) ==
    [q \in (DOMAIN t) \cup {p} |-> IF q \in DOMAIN t THEN t[q] ELSE r]

\* variant: inserting at p discards the data nodes of the networks inside p
TrieInsertPrune(t, p, r) ==
    [q \in {x \in DOMAIN t : ~Contains(p, x)} \cup {p} |->
        IF q = p THEN r ELSE t[q]]

\* the tree after inserting r at p: every other data node is kept
TrieInsert(t, p, r) ==
    [q \in (DOMAIN t) \cup {p} |-> IF q = p THEN r ELSE t[q]]

\* networks whose insertion the writer refuses, with the condition it reports
DenyList ==
    { [net |-> [fam |-> "v4", addr |-> <<10, 0, 0, 0>>, len |-> 8],
       why |-> "reserved network"],
      [net |-> [fam |-> "v4", addr |-> <<127, 0, 0, 0>>, len |-> 8],
       why |-> "reserved network"],
      [net |-> [fam |-> "v6", addr |-> <<8194, 0, 0, 0, 0, 0, 0, 0>>, len |-> 16],
       why |-> "aliased network"] }

\* the condition reported for prefix p, "" when p is in no denied network
DenyReason(p) ==
    IF \E d \in DenyList : Contains(d.net, p)
    THEN (CHOOSE d \in DenyList : Contains(d.net, p)).why
    ELSE ""

\* longest-prefix match of address x in tree t; EmptyMap when nothing matches
Lookup(t, fam, x) ==
    LET M == {p \in DOMAIN t : Covers(p, fam, x)}
    IN  IF M = {} THEN EmptyMap
        ELSE t[CHOOSE p \in M : \A q \in M : q.len <= p.len]

\* the options given to mmdbwriter.New
RecordSize == 24

\* the container written by writer.WriteTo: metadata and the tree's bindings
Serialize(t) ==
    [databaseType |-> "BGP-Tools-ASN-DB",
     recordSize   |-> RecordSize,
     description  |-> "BGP.Tools ASN Database",
     tree         |-> t]

\* canonical encoding of a record: the identifier field before the name field
Encode(r) ==
    (IF ASNKey \in DOMAIN r THEN << [key |-> ASNKey, val |-> r[ASNKey]] >>
     ELSE <<>>)
    \o
    (IF OrgKey \in DOMAIN r THEN << [key |-> OrgKey, val |-> r[OrgKey]] >>
     ELSE <<>>)

\* the value pool: the encoded records in the order they were added, and for
\* each data node the offset of the entry it refers to
EmptyPool == [entries |-> <<>>, ref |-> [p \in {} |-> 0]]

\* offset of bytes in the pool entries, 0 when they are not in the pool
OffsetOf(entries, bytes) ==
    IF \E k \in 1..Len(entries) : entries[k] = bytes
    THEN CHOOSE k \in 1..Len(entries) : entries[k] = bytes
    ELSE 0

\* variant: every call appends, without the lookup by content
InternAppend(entries, bytes) ==
    [entries |-> Append(entries, bytes), offset |-> Len(entries) + 1]

\* intern(pool, bytes): the existing offset on a hit, else append
Intern(entries, bytes) ==
    IF OffsetOf(entries, bytes) # 0
    THEN [entries |-> entries, offset |-> OffsetOf(entries, bytes)]
    ELSE [entries |-> Append(entries, bytes), offset |-> Len(entries) + 1]

\* the pool after the data node of prefix p was given record r
PoolInsert(pl, p, r) ==
    LET i == Intern(pl.entries, Encode(r))
    IN  [entries |-> i.entries,
         ref     |-> [q \in (DOMAIN pl.ref) \cup {p} |->
                         IF q = p THEN i.offset ELSE pl.ref[q]]]

----------------------------------------------------------------------------
(* The JavaScript stage: parseTableData, separateByIPVersion, convertToCSV *)

Has(e, k) == k \in DOMAIN e

\* JavaScript truthiness of a text or number field of a parsed JSON object
TruthyText(e, k) == Has(e, k) /\ e[k] # <<>>

TruthyNum(e, k) == Has(e, k) /\ e[k] # 0

RECURSIVE ParseTableData(_)
ParseTableData(lines) ==
    IF lines = <<>> THEN <<>>
    ELSE LET e == Head(lines)
         IN  (IF e.json /\ TruthyText(e, "CIDR") /\ TruthyNum(e, "ASN")
              THEN << [CIDR |-> e.CIDR, ASN |-> e.ASN,
                       Hits |-> IF TruthyNum(e, "Hits") THEN e.Hits ELSE 1] >>
              ELSE <<>>)
             \o ParseTableData(Tail(lines))

HasColon(s) == IndexByte(s, ":") # 0

Reverse(q) == [i \in 1..Len(q) |-> q[Len(q) + 1 - i]]

\* variant: entries are put at the front of their list (unshift for push)
SeparateByIPVersionUnshift(tableData) ==
    [ipv4 |-> Reverse(SelectSeq(tableData, LAMBDA e : ~HasColon(e.CIDR))),
     ipv6 |-> Reverse(SelectSeq(tableData, LAMBDA e : HasColon(e.CIDR)))]

SeparateByIPVersion(tableData) ==
    [ipv4 |-> SelectSeq(tableData, LAMBDA e : ~HasColon(e.CIDR)),
     ipv6 |-> SelectSeq(tableData, LAMBDA e : HasColon(e.CIDR))]

\* the rows of the CSV text, the header line first; the quotes put around the
\* CIDR are the ones the CSV reader removes
ConvertToCSV(tableData) ==
    << <<T_network, T_asn, T_hits>> >> \o
    [i \in 1..Len(tableData) |->
        << tableData[i].CIDR,
           NumberToText(tableData[i].ASN),
           NumberToText(IF tableData[i].Hits # 0 THEN tableData[i].Hits ELSE 0) >>]

----------------------------------------------------------------------------
(* The validation utilities isValidCIDR and isValidASN *)

\* a JavaScript number: not-a-number, or a sign, the decimal digits of the
\* integer part and whether there is a fractional part
JsNaN == [nan |-> TRUE, neg |-> FALSE, int |-> Zero, frac |-> FALSE]

JsInt(neg, digits) == [nan |-> FALSE, neg |-> neg, int |-> digits, frac |-> FALSE]

\* the longest run of decimal (or hexadecimal) digits at the start of s
RECURSIVE LeadingDigits(_, _)
LeadingDigits(s, hex) ==
    IF s = <<>> THEN <<>>
    ELSE IF (IF hex THEN IsHex(Head(s)) ELSE IsDigit(Head(s)))
    THEN <<Head(s)>> \o LeadingDigits(Tail(s), hex)
    ELSE <<>>

\* parseInt(s): leading blanks are skipped, then an optional sign, then "0x"
\* selects base 16, then the longest run of digits is read and the rest of
\* the text is ignored; NaN when there is no digit
ParseInt(s) ==
    LET t    == TrimLeft(s)
        sign == t # <<>> /\ Head(t) \in {"-", "+"}
        neg  == t # <<>> /\ Head(t) = "-"
        u    == IF sign THEN Tail(t) ELSE t
        hex  == Len(u) >= 2 /\ u[1] = "0" /\ u[2] \in {"x", "X"}
        run  == LeadingDigits(IF hex THEN SubSeq(u, 3, Len(u)) ELSE u, hex)
    IN  IF run = <<>> THEN JsNaN
        ELSE JsInt(neg, IF hex THEN NumberToText(HexValue(run, 0))
                        ELSE StripZeros(run))

NumberIsInteger(n) == ~n.nan /\ ~n.frac

\* n >= 0
NonNegative(n) == ~n.nan /\ (~n.neg \/ (n.int = Zero /\ ~n.frac))

\* n > 0
Positive(n) == ~n.nan /\ ~n.neg /\ (n.int # Zero \/ n.frac)

\* n <= d, d a canonical digit sequence
AtMost(n, d) ==
    /\ ~n.nan
    /\ \/ n.neg
       \/ DecLeq(n.int, d) /\ ~(n.int = d /\ n.frac)

HexOrColon(s) == s # <<>> /\ \A i \in 1..Len(s) : IsHex(s[i]) \/ s[i] = ":"

\* isValidCIDR(cidr) for a string cidr
IsValidCIDR(cidr) ==
    LET parts  == Split(cidr, "/")
        ip     == parts[1]
        prefix == IF Len(parts) >= 2 THEN parts[2] ELSE <<>>
        prefixNum == ParseInt(prefix)
    IN  IF ip = <<>> \/ prefix = <<>> THEN FALSE
        ELSE IF ~NumberIsInteger(prefixNum) THEN FALSE
        ELSE IF IndexByte(ip, ".") # 0
        THEN LET octets == Split(ip, ".")
             IN  /\ Len(octets) = 4
                 /\ NonNegative(prefixNum)
                 /\ AtMost(prefixNum, <<"3", "2">>)
                 /\ \A i \in 1..Len(octets) :
                       LET num == ParseInt(octets[i])
                       IN  /\ NumberIsInteger(num)
                           /\ NonNegative(num)
                           /\ AtMost(num, <<"2", "5", "5">>)
        ELSE IF IndexByte(ip, ":") # 0
        THEN /\ NonNegative(prefixNum)
             /\ AtMost(prefixNum, <<"1", "2", "8">>)
             /\ HexOrColon(ip)
        ELSE FALSE

\* isValidASN(asn) for a string or a number asn
IsValidASN(asn) ==
    LET asnNum == IF asn.kind = "text" THEN ParseInt(asn.text) ELSE asn.num
    IN  NumberIsInteger(asnNum) /\ Positive(asnNum) /\ AtMost(asnNum, MaxUint32)

----------------------------------------------------------------------------
(* Inputs *)

\* rows of the CSV files with three columns: network, asn, organization
WideRows ==
    { <<T_Net1, T_13335, T_Cloudflare>>,
      <<T_Net1, T_15169, T_Google>>,
      <<T_Net1Host, T_13335sp, T_CloudflareSp>>,
      <<T_Net1Half, T_15169, T_Google>>,
      <<T_Net8, T_15169, T_Google>>,
      <<T_NetBad, T_13335, T_Cloudflare>>,
      <<T_Net6, T_13335, T_Blank>> }

\* rows of the CSV files with two columns (network, asn), and a row with one
NarrowRows ==
    { <<T_Net8, T_15169>>,
      <<T_Net1, T_AS13335>>,
      <<T_Net8, T_TooBig>>,
      <<T_Net8, T_0>>,
      <<T_NetPrivate, T_64512>>,
      <<T_Net1>> }

\* lines of the JSONL routing table given to generateMMDB
LineSet ==
    { [json |-> TRUE, CIDR |-> T_Net1, ASN |-> 13335, Hits |-> 5],
      [json |-> TRUE, CIDR |-> T_Net8, ASN |-> 15169],
      [json |-> TRUE, CIDR |-> T_Net6, ASN |-> 13335, Hits |-> 2],
      [json |-> TRUE, CIDR |-> T_Net1, ASN |-> 0, Hits |-> 3],
      [json |-> TRUE, ASN |-> 15169, Hits |-> 1],
      [json |-> TRUE, CIDR |-> T_Net1, ASN |-> 15169, Hits |-> 1],
      [json |-> TRUE, CIDR |-> T_NetBad, ASN |-> 13335, Hits |-> 1],
      [json |-> FALSE] }

SeqsUpTo(S, n) == UNION { [1..k -> S] : k \in 0..n }

\* the output file before the run: absent, or left by an earlier run
NoFile == [exists |-> FALSE]

OldTree ==
    [p \in {[fam |-> "v4", addr |-> <<9, 9, 9, 0>>, len |-> 24]} |->
        (ASNKey :> T_64512)]

OldFile == [exists |-> TRUE, complete |-> TRUE, content |-> Serialize(OldTree)]

\* address texts and mask texts the prefix texts under test are made of
AddrTexts ==
    { <<"1", "0", ".", "0", ".", "0", ".", "5">>,
      <<"1", "9", "2", ".", "1", "6", "8", ".", "1", ".", "0">>,
      <<"2", "5", "5", ".", "2", "5", "5", ".", "2", "5", "5", ".", "2", "5", "5">>,
      <<"0", ".", "0", ".", "0", ".", "0">>,
      <<"3", "0", "0", ".", "1", "6", "8", ".", "1", ".", "0">>,
      <<"1", ".", "2", ".", "3">>,
      <<"0", "1", ".", "2", ".", "3", ".", "4">>,
      <<"1", ".", "2", ".", "3", ".", "4", "x">>,
      <<"1", ".", ".", "2", ".", "3">>,
      <<":", ":">>,
      <<":", ":", "1">>,
      <<"2", "0", "0", "1", ":", "d", "b", "8", ":", ":">>,
      <<"2", "0", "0", "1", ":", "D", "B", "8", ":", ":", "1">>,
      <<"1", ":", "2", ":", "3", ":", "4", ":", "5", ":", "6", ":", "7", ":", "8">>,
      <<"1", ":", "0", ":", "0", ":", "2", ":", "0", ":", "0", ":", "0", ":", "3">>,
      <<":", ":", "f", "f", "f", "f", ":", "1", "0", "2", ":", "3", "0", "4">>,
      <<"0", ":", "0", ":", "1", ":", ":">>,
      <<":">>,
      <<":", ":", ":">>,
      <<"1", "2", "3", "4", "5", ":", ":">>,
      <<"2", "0", "0", "1", ":", "d", "b", "8", ":", ":", "g">>,
      <<"1", ":", "2", ":", "3">> }

\* mask texts
MaskTexts ==
    { <<"0">>,
      <<"8">>,
      <<"2", "4">>,
      <<"3", "2">>,
      <<"3", "3">>,
      <<"9", "6">>,
      <<"1", "2", "0">>,
      <<"1", "2", "8">>,
      <<"1", "2", "9">>,
      <<>>,
      <<"2", "4", "x">>,
      <<"0", "2", "4">> }

\* texts without a separator, without an address, or with two separators
OtherCidrTexts ==
    { <<"1", "0", ".", "0", ".", "0", ".", "0">>,
      <<>>,
      <<"/", "2", "4">>,
      <<"1", ".", "2", ".", "3", ".", "4", "/", "8", "/", "9">>,
      <<"a", "b", "c", "/", "2", "4">> }

\* the prefix texts given to net.ParseCIDR and isValidCIDR
CidrTexts ==
    {a \o <<"/">> \o m : a \in AddrTexts, m \in MaskTexts} \cup OtherCidrTexts

\* strings given to isValidASN
AsnTexts ==
    { <<"6", "5", "0", "0", "1">>,
      <<"0">>,
      <<"1">>,
      <<"-", "1">>,
      <<"4", "2", "9", "4", "9", "6", "7", "2", "9", "5">>,
      <<"4", "2", "9", "4", "9", "6", "7", "2", "9", "6">>,
      <<"6", "5", "0", "0", "1", "a", "b", "c">>,
      <<"1", ".", "5">>,
      <<" ", "4", "2">>,
      <<"0", "x", "1", "0">>,
      <<>>,
      <<"a", "b", "c">>,
      <<"0", "0", "7">> }

\* numbers given to isValidASN: 65001, 0, 1, -1, 2^32 - 1, 2^32, 1.5, NaN
AsnNumbers ==
    { JsInt(FALSE, <<"6", "5", "0", "0", "1">>),
      JsInt(FALSE, Zero),
      JsInt(FALSE, <<"1">>),
      JsInt(TRUE, <<"1">>),
      JsInt(FALSE, MaxUint32),
      JsInt(FALSE, T_TooBig),
      [nan |-> FALSE, neg |-> FALSE, int |-> <<"1">>, frac |-> TRUE],
      JsNaN }

\* the arguments of the calls under test
ValidationArgs ==
    {[kind |-> "cidr", text |-> t] : t \in CidrTexts}
    \cup {[kind |-> "text", text |-> t] : t \in AsnTexts}
    \cup {[kind |-> "number", num |-> n] : n \in AsnNumbers}

----------------------------------------------------------------------------
(* State *)

VARIABLES
    caller,          \* "cli": the binary is run on a CSV file; "js": generateMMDB
    rawTable,        \* the lines of the JSONL routing table (generateMMDB)
    tableData,       \* the entries convertToCSV was given
    csvFile,         \* the rows of the CSV file the binary reads
    pos,             \* index of the next row the CSV reader returns
    fieldsPerRecord, \* field count the CSV reader fixed on the first row
    writer,          \* the tree of the mmdbwriter: prefix -> record
    recordCount,     \* processCSVFile's recordCount
    stdout,          \* what the binary printed, in order
    stderr,          \* the fatal error the binary logged, "" when none
    pc,              \* position: generateMMDB, main, loop, write, exited
    exitCode,        \* exit status of the binary, -1 while it runs
    outFile,         \* the output destination
    destBefore,      \* the output destination as it was before the run
    lastInsert,      \* the last call of writer.Insert and the error it returned
    pool,            \* the value pool of the writer and the offset each node refers to
    result,          \* what generateMMDB gave its caller: returned counts, or thrown
    arg,             \* the argument of the validation or parsing call under test
    ret,             \* what the calls made on arg have returned so far
    tempCsv,         \* whether the file <outputPath>.temp.csv exists
    cleaner,         \* cleanOldFiles: the directory and the position in the run
    limiter,         \* limitConcurrency: the tasks and the position in the loop
    retry,           \* retryWithBackoff: attempt, delay and the calls made
    http,            \* httpRequest: attempt, delay and the requests made
    worktree,        \* withWorktree: the temporary directory and the outcome
    push,            \* pushToAutoUpdate: the branch, the worktree and the run
    meta             \* generateBaseMetadata: the options and the metadata

\* the variables of the scripts and utilities
utilVars == <<cleaner, limiter, retry, http, worktree, push, meta>>

\* the variables of the database generation and of the validation calls
mmdbVars == <<caller, rawTable, tableData, csvFile, pos, fieldsPerRecord, writer,
              recordCount, stdout, stderr, pc, exitCode, outFile, destBefore,
              lastInsert, pool, result, arg, ret, tempCsv>>

vars == <<mmdbVars, utilVars>>

NoInsert == [called |-> FALSE]

NoResult == [kind |-> "none"]

NoArg == [kind |-> "none"]

NoRet == [called |-> FALSE]

\* a script or utility that has not been called
Idle == [pc |-> "idle"]

\* every script and utility but the named one is idle
IdleBut(name) ==
    /\ name = "cleaner" \/ cleaner = Idle
    /\ name = "limiter" \/ limiter = Idle
    /\ name = "retry" \/ retry = Idle
    /\ name = "http" \/ http = Idle
    /\ name = "worktree" \/ worktree = Idle
    /\ name = "push" \/ push = Idle
    /\ name = "meta" \/ meta = Idle

Init ==
    /\ \/ /\ caller = "cli"
          /\ rawTable = <<>>
          /\ csvFile \in SeqsUpTo(WideRows, MaxLines) \cup SeqsUpTo(NarrowRows, MaxLines)
          /\ pc = "main"
       \/ /\ caller = "js"
          /\ rawTable \in SeqsUpTo(LineSet, MaxEntries)
          /\ csvFile = <<>>
          /\ pc = "generateMMDB"
    /\ tableData = <<>>
    /\ pos = 1
    /\ fieldsPerRecord = 0
    /\ writer = EmptyTree
    /\ recordCount = 0
    /\ stdout = <<>>
    /\ stderr = ""
    /\ exitCode = -1
    /\ outFile \in {NoFile, OldFile}
    /\ destBefore = outFile
    /\ lastInsert = NoInsert
    /\ pool = EmptyPool
    /\ result = NoResult
    /\ arg = NoArg
    /\ ret = NoRet
    /\ tempCsv = FALSE
    /\ IdleBut("")

----------------------------------------------------------------------------
(* generateMMDB up to the start of the binary *)

GenerateCSV ==
    /\ pc = "generateMMDB"
    /\ LET parsed == ParseTableData(rawTable)
           split  == SeparateByIPVersion(parsed)
           all    == split.ipv4 \o split.ipv6
       IN  /\ tableData' = all
           /\ csvFile' = ConvertToCSV(all)
    /\ pc' = "main"
    /\ tempCsv' = TRUE
    /\ UNCHANGED <<utilVars, arg, ret, result, pool,
                   caller, rawTable, pos, fieldsPerRecord, writer, recordCount,
                   stdout, stderr, exitCode, outFile, destBefore, lastInsert>>

----------------------------------------------------------------------------
(* processCSVFile *)

\* log.Fatal(err): the error is logged and the process exits with status 1
Fatal(msg) ==
    /\ stderr' = msg
    /\ exitCode' = 1
    /\ pc' = "exited"

\* variant: the first row is not set aside, the loop starts with it
ReadHeaderKeep ==
    /\ pc = "main"
    /\ csvFile # <<>>
    /\ fieldsPerRecord' = Len(csvFile[1])
    /\ pos' = 1
    /\ stdout' = Append(stdout, [msg |-> "CSV header", row |-> 1])
    /\ pc' = "loop"
    /\ UNCHANGED <<utilVars, tempCsv, arg, ret, result, pool,
                   caller, rawTable, tableData, csvFile, writer, recordCount,
                   stderr, exitCode, outFile, destBefore, lastInsert>>

ReadHeader ==
    /\ pc = "main"
    /\ csvFile # <<>>
    /\ fieldsPerRecord' = Len(csvFile[1])
    /\ pos' = 2
    /\ stdout' = Append(stdout, [msg |-> "CSV header", row |-> 1])
    /\ pc' = "loop"
    /\ UNCHANGED <<utilVars, tempCsv, arg, ret, result, pool,
                   caller, rawTable, tableData, csvFile, writer, recordCount,
                   stderr, exitCode, outFile, destBefore, lastInsert>>

ReadHeaderFail ==
    /\ pc = "main"
    /\ csvFile = <<>>
    /\ Fatal("failed to read CSV header")
    /\ UNCHANGED <<utilVars, tempCsv, arg, ret, result, pool,
                   caller, rawTable, tableData, csvFile, pos, fieldsPerRecord,
                   writer, recordCount, stdout, outFile, destBefore, lastInsert>>

\* the loop has a row to read
AtRow == pc = "loop" /\ pos <= Len(csvFile)

\* the CSV reader returns the row at pos without error
RowRead == AtRow /\ Len(csvFile[pos]) = fieldsPerRecord

network == TrimSpace(csvFile[pos][1])

asnStr == TrimSpace(csvFile[pos][2])

\* the iteration ends with `continue`: the next row is read next
Continue ==
    /\ pos' = pos + 1
    /\ pc' = "loop"

ReadEOF ==
    /\ pc = "loop"
    /\ pos > Len(csvFile)
    /\ stdout' = Append(stdout, [msg |-> "Total records processed",
                                 count |-> recordCount])
    /\ pc' = "write"
    /\ UNCHANGED <<utilVars, tempCsv, arg, ret, result, pool,
                   caller, rawTable, tableData, csvFile, pos, fieldsPerRecord,
                   writer, recordCount, stderr, exitCode, outFile, destBefore,
                   lastInsert>>

ReadRowError ==
    /\ AtRow
    /\ Len(csvFile[pos]) # fieldsPerRecord
    /\ Fatal("failed to read CSV row")
    /\ UNCHANGED <<utilVars, tempCsv, arg, ret, result, pool,
                   caller, rawTable, tableData, csvFile, pos, fieldsPerRecord,
                   writer, recordCount, stdout, outFile, destBefore, lastInsert>>

SkipShortRow ==
    /\ RowRead
    /\ Len(csvFile[pos]) < 2
    /\ Continue
    /\ UNCHANGED <<utilVars, tempCsv, arg, ret, result, pool,
                   caller, rawTable, tableData, csvFile, fieldsPerRecord,
                   writer, recordCount, stdout, stderr, exitCode, outFile,
                   destBefore, lastInsert>>

\* variant: an invalid CIDR ends the run with an error
SkipInvalidCIDRAbort ==
    /\ RowRead
    /\ Len(csvFile[pos]) >= 2
    /\ ~ParseCIDR(network).ok
    /\ Fatal("invalid CIDR")
    /\ UNCHANGED <<utilVars, tempCsv, arg, ret, result, pool,
                   caller, rawTable, tableData, csvFile, pos, fieldsPerRecord,
                   writer, recordCount, stdout, outFile, destBefore, lastInsert>>

SkipInvalidCIDR ==
    /\ RowRead
    /\ Len(csvFile[pos]) >= 2
    /\ ~ParseCIDR(network).ok
    /\ stdout' = Append(stdout, [msg |-> "Skipping invalid CIDR", row |-> pos,
                                 text |-> network])
    /\ Continue
    /\ UNCHANGED <<utilVars, tempCsv, arg, ret, result, pool,
                   caller, rawTable, tableData, csvFile, fieldsPerRecord,
                   writer, recordCount, stderr, exitCode, outFile, destBefore,
                   lastInsert>>

SkipInvalidASN ==
    /\ RowRead
    /\ Len(csvFile[pos]) >= 2
    /\ ParseCIDR(network).ok
    /\ ~ParseUint(asnStr).ok
    /\ stdout' = Append(stdout, [msg |-> "Skipping invalid ASN", row |-> pos,
                                 text |-> asnStr])
    /\ Continue
    /\ UNCHANGED <<utilVars, tempCsv, arg, ret, result, pool,
                   caller, rawTable, tableData, csvFile, fieldsPerRecord,
                   writer, recordCount, stderr, exitCode, outFile, destBefore,
                   lastInsert>>

\* the row at pos reaches writer.Insert
AtInsert ==
    /\ RowRead
    /\ Len(csvFile[pos]) >= 2
    /\ ParseCIDR(network).ok
    /\ ParseUint(asnStr).ok

cidr == ParseCIDR(network).cidr

record == BuildRecord(csvFile[pos], ParseUint(asnStr).val)

\* variant: the writer also accepts the networks of its deny-list
InsertAcceptedAny ==
    /\ AtInsert
    /\ writer' = TrieInsert(writer, cidr, record)
    /\ lastInsert' = [called |-> TRUE, row |-> pos, prefix |-> cidr,
                      record |-> record, err |-> ""]
    /\ recordCount' = recordCount + 1
    /\ stdout' = IF (recordCount + 1) % 10000 = 0
                 THEN Append(stdout, [msg |-> "Processed records",
                                      count |-> recordCount + 1])
                 ELSE stdout
    /\ pool' = PoolInsert(pool, cidr, record)
    /\ Continue
    /\ UNCHANGED <<utilVars, tempCsv, arg, ret, result, caller, rawTable, tableData, csvFile,
                   fieldsPerRecord, stderr, exitCode, outFile, destBefore>>

\* writer.Insert returns nil
InsertAccepted ==
    /\ AtInsert
    /\ DenyReason(cidr) = ""
    /\ writer' = TrieInsert(writer, cidr, record)
    /\ lastInsert' = [called |-> TRUE, row |-> pos, prefix |-> cidr,
                      record |-> record, err |-> ""]
    /\ recordCount' = recordCount + 1
    /\ stdout' = IF (recordCount + 1) % 10000 = 0
                 THEN Append(stdout, [msg |-> "Processed records",
                                      count |-> recordCount + 1])
                 ELSE stdout
    /\ pool' = PoolInsert(pool, cidr, record)
    /\ Continue
    /\ UNCHANGED <<utilVars, tempCsv, arg, ret, result, caller, rawTable, tableData, csvFile,
                   fieldsPerRecord, stderr, exitCode, outFile, destBefore>>

\* variant: the error text is not examined, every insertion error is fatal
InsertDeniedFatal ==
    /\ AtInsert
    /\ DenyReason(cidr) # ""
    /\ lastInsert' = [called |-> TRUE, row |-> pos, prefix |-> cidr,
                      record |-> record, err |-> DenyReason(cidr)]
    /\ Fatal("failed to insert record")
    /\ UNCHANGED <<utilVars, tempCsv, arg, ret, result, pool,
                   caller, rawTable, tableData, csvFile, pos, fieldsPerRecord,
                   writer, recordCount, stdout, outFile, destBefore>>

\* writer.Insert returns an aliased / reserved / private network error
InsertDenied ==
    /\ AtInsert
    /\ DenyReason(cidr) # ""
    /\ lastInsert' = [called |-> TRUE, row |-> pos, prefix |-> cidr,
                      record |-> record, err |-> DenyReason(cidr)]
    /\ stdout' = Append(stdout, [msg |-> "Skipping problematic network",
                                 row |-> pos, text |-> network])
    /\ Continue
    /\ UNCHANGED <<utilVars, tempCsv, arg, ret, result, pool,
                   caller, rawTable, tableData, csvFile, fieldsPerRecord,
                   writer, recordCount, stderr, exitCode, outFile, destBefore>>

\* variant: the error is logged and the loop goes on with the next row
InsertFatalContinue ==
    /\ AtInsert
    /\ lastInsert' = [called |-> TRUE, row |-> pos, prefix |-> cidr,
                      record |-> record, err |-> "insert failed"]
    /\ stderr' = "failed to insert record"
    /\ Continue
    /\ UNCHANGED <<utilVars, tempCsv, arg, ret, result, pool,
                   caller, rawTable, tableData, csvFile, fieldsPerRecord,
                   writer, recordCount, stdout, exitCode, outFile, destBefore>>

\* writer.Insert returns any other error
InsertFatal ==
    /\ AtInsert
    /\ lastInsert' = [called |-> TRUE, row |-> pos, prefix |-> cidr,
                      record |-> record, err |-> "insert failed"]
    /\ Fatal("failed to insert record")
    /\ UNCHANGED <<utilVars, tempCsv, arg, ret, result, pool,
                   caller, rawTable, tableData, csvFile, pos, fieldsPerRecord,
                   writer, recordCount, stdout, outFile, destBefore>>

----------------------------------------------------------------------------
(* main after processCSVFile returned nil *)

\* os.MkdirAll or os.Create fails: nothing was opened
CreateFail ==
    /\ pc = "write"
    /\ Fatal("failed to create output")
    /\ UNCHANGED <<utilVars, tempCsv, arg, ret, result, pool,
                   caller, rawTable, tableData, csvFile, pos, fieldsPerRecord,
                   writer, recordCount, stdout, outFile, destBefore, lastInsert>>

\* variant: the write error is printed and main returns normally
WriteFailReturn ==
    /\ pc = "write"
    /\ outFile' = [exists |-> TRUE, complete |-> FALSE]
    /\ stdout' = Append(stdout, [msg |-> "Writing MMDB file"])
    /\ stderr' = "failed to write output"
    /\ exitCode' = 0
    /\ pc' = "exited"
    /\ UNCHANGED <<utilVars, tempCsv, arg, ret, result, pool,
                   caller, rawTable, tableData, csvFile, pos, fieldsPerRecord,
                   writer, recordCount, destBefore, lastInsert>>

\* os.Create truncated the destination, then writer.WriteTo failed
WriteFail ==
    /\ pc = "write"
    /\ outFile' = [exists |-> TRUE, complete |-> FALSE]
    /\ stdout' = Append(stdout, [msg |-> "Writing MMDB file"])
    /\ Fatal("failed to write output")
    /\ UNCHANGED <<utilVars, tempCsv, arg, ret, result, pool,
                   caller, rawTable, tableData, csvFile, pos, fieldsPerRecord,
                   writer, recordCount, destBefore, lastInsert>>

WriteOK ==
    /\ pc = "write"
    /\ outFile' = [exists |-> TRUE, complete |-> TRUE,
                   content |-> Serialize(writer)]
    /\ stdout' = stdout \o << [msg |-> "Writing MMDB file"],
                              [msg |-> "Successfully created MMDB file"] >>
    /\ exitCode' = 0
    /\ pc' = "exited"
    /\ UNCHANGED <<utilVars, tempCsv, arg, ret, result, pool,
                   caller, rawTable, tableData, csvFile, pos, fieldsPerRecord,
                   writer, recordCount, stderr, destBefore, lastInsert>>

----------------------------------------------------------------------------
(* generateMMDB after the binary has exited *)

\* what generateMMDB returns: the lengths of the lists separateByIPVersion
\* made of the parsed table (generatedAt, the time of the call, is left out)
ReturnValue ==
    LET split == SeparateByIPVersion(ParseTableData(rawTable))
    IN  [kind       |-> "returned",
         ipv4Count  |-> Len(split.ipv4),
         ipv6Count  |-> Len(split.ipv6),
         totalCount |-> Len(split.ipv4) + Len(split.ipv6)]

\* the binary exited with status 0: execAsync resolves, rm -f removes the
\* temporary file (a failure of rm is only warned about) and the counts are
\* returned
GenerateMMDBReturn ==
    /\ caller = "js"
    /\ pc = "exited"
    /\ exitCode = 0
    /\ result = NoResult
    /\ result' = ReturnValue
    /\ \E removed \in BOOLEAN : tempCsv' = (tempCsv /\ ~removed)
    /\ UNCHANGED <<utilVars, arg, ret, pool, caller, rawTable, tableData, csvFile, pos,
                   fieldsPerRecord, writer, recordCount, stdout, stderr, pc,
                   exitCode, outFile, destBefore, lastInsert>>

\* the binary exited with a nonzero status: execAsync rejects and generateMMDB
\* throws "MMDB generation failed"
GenerateMMDBThrow ==
    /\ caller = "js"
    /\ pc = "exited"
    /\ exitCode # 0
    /\ result = NoResult
    /\ result' = [kind |-> "thrown"]
    /\ UNCHANGED <<utilVars, tempCsv, arg, ret, pool, caller, rawTable, tableData, csvFile, pos,
                   fieldsPerRecord, writer, recordCount, stdout, stderr, pc,
                   exitCode, outFile, destBefore, lastInsert>>

Next ==
    \/ GenerateCSV
    \/ ReadHeader
    \/ ReadHeaderFail
    \/ ReadEOF
    \/ ReadRowError
    \/ SkipShortRow
    \/ SkipInvalidCIDR
    \/ SkipInvalidASN
    \/ InsertAccepted
    \/ InsertDenied
    \/ InsertFatal
    \/ CreateFail
    \/ WriteFail
    \/ WriteOK
    \/ GenerateMMDBReturn
    \/ GenerateMMDBThrow

Spec == Init /\ [][Next]_vars

----------------------------------------------------------------------------
(* The parsing and validation functions applied to one argument *)

InitValidate ==
    /\ arg \in ValidationArgs
    /\ ret = NoRet
    /\ caller = "validate"
    /\ pc = "validate"
    /\ rawTable = <<>>
    /\ tableData = <<>>
    /\ csvFile = <<>>
    /\ pos = 1
    /\ fieldsPerRecord = 0
    /\ writer = EmptyTree
    /\ recordCount = 0
    /\ stdout = <<>>
    /\ stderr = ""
    /\ exitCode = -1
    /\ outFile = NoFile
    /\ destBefore = NoFile
    /\ lastInsert = NoInsert
    /\ pool = EmptyPool
    /\ result = NoResult
    /\ tempCsv = FALSE
    /\ IdleBut("")

\* net.ParseCIDR(network) as processCSVFile calls it
CallParseCIDR ==
    /\ pc = "validate"
    /\ arg.kind = "cidr"
    /\ ret = NoRet
    /\ ret' = [called |-> TRUE, fn |-> "ParseCIDR", parsed |-> ParseCIDR(arg.text)]
    /\ UNCHANGED <<utilVars, tempCsv, arg, result, pool, caller, rawTable, tableData, csvFile, pos,
                   fieldsPerRecord, writer, recordCount, stdout, stderr, pc,
                   exitCode, outFile, destBefore, lastInsert>>

\* the parsed prefix is written back to text
CallString ==
    /\ pc = "validate"
    /\ ret.called /\ ret.fn = "ParseCIDR"
    /\ ret.parsed.ok
    /\ ret' = [called |-> TRUE, fn |-> "String", parsed |-> ret.parsed,
               text |-> IPNetString(ret.parsed.cidr)]
    /\ UNCHANGED <<utilVars, tempCsv, arg, result, pool, caller, rawTable, tableData, csvFile, pos,
                   fieldsPerRecord, writer, recordCount, stdout, stderr, pc,
                   exitCode, outFile, destBefore, lastInsert>>

\* the text is parsed again
CallParseAgain ==
    /\ pc = "validate"
    /\ ret.called /\ ret.fn = "String"
    /\ ret' = [called |-> TRUE, fn |-> "ParseAgain", parsed |-> ret.parsed,
               text |-> ret.text, again |-> ParseCIDR(ret.text)]
    /\ UNCHANGED <<utilVars, tempCsv, arg, result, pool, caller, rawTable, tableData, csvFile, pos,
                   fieldsPerRecord, writer, recordCount, stdout, stderr, pc,
                   exitCode, outFile, destBefore, lastInsert>>

CallIsValidCIDR ==
    /\ pc = "validate"
    /\ arg.kind = "cidr"
    /\ ret = NoRet
    /\ ret' = [called |-> TRUE, fn |-> "isValidCIDR", valid |-> IsValidCIDR(arg.text)]
    /\ UNCHANGED <<utilVars, tempCsv, arg, result, pool, caller, rawTable, tableData, csvFile, pos,
                   fieldsPerRecord, writer, recordCount, stdout, stderr, pc,
                   exitCode, outFile, destBefore, lastInsert>>

CallIsValidASN ==
    /\ pc = "validate"
    /\ arg.kind \in {"text", "number"}
    /\ ret = NoRet
    /\ ret' = [called |-> TRUE, fn |-> "isValidASN", valid |-> IsValidASN(arg)]
    /\ UNCHANGED <<utilVars, tempCsv, arg, result, pool, caller, rawTable, tableData, csvFile, pos,
                   fieldsPerRecord, writer, recordCount, stdout, stderr, pc,
                   exitCode, outFile, destBefore, lastInsert>>

NextValidate ==
    \/ CallParseCIDR
    \/ CallString
    \/ CallParseAgain
    \/ CallIsValidCIDR
    \/ CallIsValidASN

SpecValidate == InitValidate /\ [][NextValidate]_vars

----------------------------------------------------------------------------
(* What the input determines, for stating the properties *)

\* what a row of the CSV file is to processCSVFile: its trimmed fields,
\* whether they parse, the prefix and record they give, the network condition
\* an insertion reports and the skip message the row leads to ("" when none)
RowFacts(row) ==
    LET wide == Len(row) >= 2
        net  == TrimSpace(row[1])
        num  == IF wide THEN TrimSpace(row[2]) ELSE <<>>
        c    == ParseCIDR(net)
        a    == ParseUint(num)
        deny == IF c.ok THEN DenyReason(c.cidr) ELSE ""
    IN  [ wide    |-> wide,
          network |-> net,
          asnStr  |-> num,
          cidrOk  |-> c.ok,
          asnOk   |-> a.ok,
          zero    |-> a.ok /\ a.val = Zero,
          prefix  |-> c.cidr,
          record  |-> IF wide /\ a.ok THEN BuildRecord(row, a.val) ELSE EmptyMap,
          deny    |-> deny,
          dataOK  |-> wide /\ c.ok /\ a.ok /\ deny = "",
          skip    |-> IF ~wide THEN ""
                      ELSE IF ~c.ok THEN "Skipping invalid CIDR"
                      ELSE IF ~a.ok THEN "Skipping invalid ASN"
                      ELSE IF deny # "" THEN "Skipping problematic network"
                      ELSE "",
          text    |-> IF c.ok /\ ~a.ok THEN num ELSE net ]

\* RowFacts tabulated once for the rows the command-line files are made of
RECURSIVE FactsTable(_)
FactsTable(S) ==
    IF S = {} THEN <<>>
    ELSE LET r == CHOOSE x \in S : TRUE
         IN  (r :> RowFacts(r)) @@ FactsTable(S \ {r})

RowTable == FactsTable(WideRows \cup NarrowRows)

\* RowFacts of line i of the CSV file
RowInfo(i) ==
    IF csvFile[i] \in DOMAIN RowTable THEN RowTable[csvFile[i]]
    ELSE RowFacts(csvFile[i])

RECURSIVE RowInfoUpTo(_)
RowInfoUpTo(n) ==
    IF n = 0 THEN <<>> ELSE Append(RowInfoUpTo(n - 1), RowInfo(n))

\* RowInfo of every line of the CSV file
Rows == RowInfoUpTo(Len(csvFile))

\* rows the loop has finished with
Processed == 2..(pos - 1)

\* row i of R is a data row that reaches the tree
Insertable(R, i) == i >= 2 /\ R[i].dataOK

\* no row after j and up to n is inserted at the prefix of row j
LastForPrefix(R, j, n) ==
    \A k \in (j + 1)..n : ~(Insertable(R, k) /\ R[k].prefix = R[j].prefix)

\* addresses looked up in the properties
ProbeAddrs ==
    { <<1, 0, 0, 5>>, <<1, 0, 0, 200>>, <<8, 8, 8, 8>>, <<1, 0, 1, 1>> }

\* prefix p is the longest data node of tree t covering the IPv4 address x
Deepest(t, p, x) ==
    /\ Covers(p, "v4", x)
    /\ \A q \in DOMAIN t : Covers(q, "v4", x) => q.len <= p.len

SkipMessages ==
    { "Skipping invalid CIDR", "Skipping invalid ASN",
      "Skipping problematic network" }

\* the binary printed message m about row i
SkipLogged(i, m) ==
    \E k \in 1..Len(stdout) :
        /\ stdout[k].msg = m
        /\ "row" \in DOMAIN stdout[k]
        /\ stdout[k].row = i

\* number of skips the binary printed
SkipCount == Cardinality({k \in 1..Len(stdout) : stdout[k].msg \in SkipMessages})

\* what the binary has printed once rows 2..n are done
RECURSIVE ReportUpTo(_, _)
ReportUpTo(R, n) ==
    IF n < 2 THEN << [msg |-> "CSV header", row |-> 1] >>
    ELSE ReportUpTo(R, n - 1) \o
         (IF R[n].skip = "" THEN <<>>
          ELSE << [msg |-> R[n].skip, row |-> n, text |-> R[n].text] >>)

ReservedConditions == {"aliased network", "reserved network", "private network"}

----------------------------------------------------------------------------
(* Properties *)

\* the run reported that row j overwrote record old with record new: by what
\* writer.Insert returned for row j, or by a line of its output
OverwriteReported(j, old, new) ==
    \/ /\ lastInsert.called /\ lastInsert.row = j
       /\ "outcome" \in DOMAIN lastInsert
       /\ lastInsert.outcome = [kind |-> "Overwritten", old |-> old, new |-> new]
    \/ \E k \in 1..Len(stdout) :
          /\ stdout[k].msg = "Overwritten"
          /\ stdout[k] = [msg |-> "Overwritten", row |-> j,
                          old |-> old, new |-> new]

\* C1: last write wins. When two rows carrying the same prefix and different
\* records have both been inserted, the tree holds the record of the later row
\* at that prefix (the earlier record is gone), and the later insertion
\* reported Overwritten with the earlier record as old and the later one as
\* new.
C1_LastWriteWins ==
    \A R \in {Rows} :
        \A i \in Processed : \A j \in Processed :
          ( /\ i < j
            /\ Insertable(R, i) /\ Insertable(R, j)
            /\ R[i].prefix = R[j].prefix
            /\ R[i].record # R[j].record
            /\ LastForPrefix(R, i, j - 1) )
          => /\ LastForPrefix(R, j, pos - 1)
                => /\ R[j].prefix \in DOMAIN writer
                   /\ writer[R[j].prefix] = R[j].record
                   /\ writer[R[j].prefix] # R[i].record
             /\ (lastInsert.called /\ lastInsert.row = j)
                => OverwriteReported(j, R[i].record, R[j].record)

\* C2: overlapping prefixes are both kept. When two rows with distinct
\* prefixes A and B, A containing B, have both been inserted (in either
\* order), both are data nodes; an address inside B for which B is the longest
\* data node resolves to the record last inserted at B, and an address inside
\* A and outside B for which A is the longest data node resolves to the record
\* last inserted at A.
C2_OverlapKept ==
    \A R \in {Rows} :
        \A i \in Processed : \A j \in Processed :
          ( /\ Insertable(R, i) /\ Insertable(R, j)
            /\ R[i].prefix # R[j].prefix
            /\ Contains(R[i].prefix, R[j].prefix)
            /\ LastForPrefix(R, i, pos - 1)
            /\ LastForPrefix(R, j, pos - 1) )
          => /\ R[i].prefix \in DOMAIN writer
             /\ R[j].prefix \in DOMAIN writer
             /\ \A x \in ProbeAddrs :
                  /\ Deepest(writer, R[j].prefix, x)
                     => Lookup(writer, "v4", x) = R[j].record
                  /\ (~Covers(R[j].prefix, "v4", x) /\ Deepest(writer, R[i].prefix, x))
                     => Lookup(writer, "v4", x) = R[i].record

\* the narrower prefix was inserted first, the wider one after it
C2_Witness ==
    /\ pc = "exited" /\ exitCode = 0
    /\ Len(csvFile) = 3
    /\ \A R \in {Rows} :
           /\ Insertable(R, 2) /\ Insertable(R, 3)
           /\ R[2].prefix # R[3].prefix
           /\ Contains(R[3].prefix, R[2].prefix)
           /\ Lookup(writer, "v4", <<1, 0, 0, 200>>) = R[2].record
           /\ Lookup(writer, "v4", <<1, 0, 0, 5>>) = R[3].record
           /\ R[2].record # R[3].record

\* C3: a row whose prefix is valid and whose identifier text is not an
\* unsigned 32-bit integer, or is zero, is skipped as an invalid identifier:
\* once the loop is past it, the skip has been reported and the row was not
\* the subject of an insertion.
C3_InvalidIdentifierSkipped ==
    \A R \in {Rows} :
        \A i \in Processed :
          (R[i].wide /\ R[i].cidrOk /\ (~R[i].asnOk \/ R[i].zero))
          => /\ SkipLogged(i, "Skipping invalid ASN")
             /\ lastInsert.called => lastInsert.row # i

\* C4: a row whose prefix text is malformed is skipped as an invalid prefix:
\* the step that handles it reports the skip, leaves the tree and the
\* accepted count unchanged and goes on to the next row.
C4_Step ==
    (RowRead /\ Len(csvFile[pos]) >= 2 /\ ~ParseCIDR(network).ok)
    => /\ writer' = writer
       /\ recordCount' = recordCount
       /\ stdout' = Append(stdout, [msg |-> "Skipping invalid CIDR",
                                    row |-> pos, text |-> network])
       /\ pos' = pos + 1
       /\ pc' = "loop"
       /\ exitCode' = exitCode
       /\ stderr' = stderr

C4_InvalidPrefixSkipped == [][C4_Step]_vars

\* the malformed row was skipped and the row after it was inserted
C4_Witness ==
    /\ Len(csvFile) = 3
    /\ csvFile[2][1] = T_NetBad
    /\ SkipLogged(2, "Skipping invalid CIDR")
    /\ lastInsert.called /\ lastInsert.row = 3 /\ lastInsert.err = ""
    /\ recordCount = 1
    /\ DOMAIN writer = {lastInsert.prefix}

\* C5: when writer.Insert reports an aliased, reserved or private network,
\* the row is skipped with a report, the accepted count and the tree are
\* unchanged, the loop goes on to the next row and the process has not exited.
C5_Step ==
    (AtInsert /\ lastInsert' # lastInsert
              /\ lastInsert'.err \in ReservedConditions)
    => /\ writer' = writer
       /\ recordCount' = recordCount
       /\ stdout' = Append(stdout, [msg |-> "Skipping problematic network",
                                    row |-> pos, text |-> network])
       /\ pos' = pos + 1
       /\ pc' = "loop"
       /\ exitCode' = -1
       /\ stderr' = stderr

C5_ReservedNetworkSkipped == [][C5_Step]_vars

\* a denied network was skipped and the run completed with a later row accepted
C5_Witness ==
    /\ Len(csvFile) = 3
    /\ SkipLogged(2, "Skipping problematic network")
    /\ lastInsert.called /\ lastInsert.row = 3 /\ lastInsert.err = ""
    /\ recordCount = 1
    /\ pc = "exited" /\ exitCode = 0

C7_NoOutputOnFailure ==
    exitCode = 1 => outFile = destBefore

\* C8: at the end of a completed run every record of the input (every row
\* after the header) is either accepted or reported as skipped.
C8_AllAccounted ==
    (pc = "exited" /\ exitCode = 0)
    => recordCount + SkipCount = Len(csvFile) - 1

\* the lines of R from `from` on are well-formed records (two columns or
\* more, valid non-reserved prefix, valid nonzero identifier) with distinct
\* prefixes
WellFormedFrom(R, from) ==
    /\ \A i \in from..Len(R) : R[i].dataOK /\ ~R[i].zero
    /\ \A i \in from..Len(R) : \A j \in from..Len(R) :
          i # j => R[i].prefix # R[j].prefix

\* every line of R from `from` on is bound to its record in the written file
\* and is what a lookup finds where it is the longest match
ResolvableFrom(R, from) ==
    /\ outFile.exists /\ outFile.complete
    /\ outFile.content = Serialize(writer)
    /\ \A i \in from..Len(R) :
          /\ R[i].prefix \in DOMAIN outFile.content.tree
          /\ outFile.content.tree[R[i].prefix] = R[i].record
          /\ \A x \in ProbeAddrs :
                Deepest(outFile.content.tree, R[i].prefix, x)
                => Lookup(outFile.content.tree, "v4", x) = R[i].record

\* C9 as stated: every line the binary receives is data, so a file of n
\* well-formed records with distinct, non-reserved prefixes yields n accepted
\* and 0 skipped.
C9_EveryLineIsData ==
    (caller = "cli" /\ pc = "exited" /\ exitCode = 0)
    => \A R \in {Rows} :
           WellFormedFrom(R, 1)
           => /\ recordCount = Len(csvFile)
              /\ SkipCount = 0
              /\ ResolvableFrom(R, 1)

\* C9 amended: the first line is always set aside as the header, without
\* being examined; a header followed by n well-formed records with distinct,
\* non-reserved prefixes yields n accepted and 0 skipped when the run
\* completes, and each record is resolvable in the output.
C9_HeaderThenData ==
    (pc = "exited" /\ exitCode = 0)
    => \A R \in {Rows} :
           WellFormedFrom(R, 2)
           => /\ recordCount = Len(csvFile) - 1
              /\ SkipCount = 0
              /\ ResolvableFrom(R, 2)
              /\ stdout[1] = [msg |-> "CSV header", row |-> 1]

\* the two-record input 1.0.0.0/24 and 8.8.8.0/24 after a header line
C9_Witness ==
    /\ pc = "exited" /\ exitCode = 0
    /\ Len(csvFile) = 3
    /\ csvFile[2][1] = T_Net1 /\ csvFile[3][1] = T_Net8
    /\ WellFormedFrom(Rows, 2)
    /\ recordCount = 2
    /\ Lookup(outFile.content.tree, "v4", <<1, 0, 0, 5>>) = Rows[2].record
    /\ Lookup(outFile.content.tree, "v4", <<8, 8, 8, 8>>) = Rows[3].record

\* C10: no record of the tree carries a hit count: for every routing-table
\* entry, no field of the record stored at its prefix is the entry's Hits
\* value.
C10_NoHitsInRecords ==
    caller = "js"
    => \A k \in 1..Len(tableData) :
         LET c == ParseCIDR(TrimSpace(tableData[k].CIDR))
         IN  (c.ok /\ c.cidr \in DOMAIN writer)
             => \A f \in DOMAIN writer[c.cidr] :
                   writer[c.cidr][f] # NumberToText(tableData[k].Hits)

\* the lines of the routing table that are entries (JSON with a CIDR and an
\* ASN), of the family with a colon (v6) or without (v4), in input order
InputEntries(v6) ==
    SelectSeq(rawTable,
              LAMBDA l : /\ l.json
                         /\ "CIDR" \in DOMAIN l /\ l.CIDR # <<>>
                         /\ "ASN" \in DOMAIN l /\ l.ASN # 0
                         /\ HasColon(l.CIDR) = v6)

\* the data rows of the CSV file of one family, in file order
FamilyRows(v6) ==
    SelectSeq(Tail(csvFile), LAMBDA row : HasColon(row[1]) = v6)

\* every call of writer.Insert is for the row being read, and a later call is
\* for a later row
C11_Step ==
    lastInsert' # lastInsert
    => /\ lastInsert'.called
       /\ lastInsert'.row = pos
       /\ lastInsert.called => lastInsert'.row > lastInsert.row

\* within each family the rows given to the binary are the input entries in
\* input order; and of two processed rows with the same prefix the later one
\* determines the record at that prefix
C11_State ==
    /\ (caller = "js" /\ pc # "generateMMDB")
       => \A v6 \in BOOLEAN :
            /\ Len(FamilyRows(v6)) = Len(InputEntries(v6))
            /\ \A k \in 1..Len(FamilyRows(v6)) :
                 /\ FamilyRows(v6)[k][1] = InputEntries(v6)[k].CIDR
                 /\ FamilyRows(v6)[k][2] = NumberToText(InputEntries(v6)[k].ASN)
    /\ \A R \in {Rows} :
         \A i \in Processed : \A j \in Processed :
           ( /\ i < j
             /\ Insertable(R, i) /\ Insertable(R, j)
             /\ R[i].prefix = R[j].prefix
             /\ LastForPrefix(R, j, pos - 1) )
           => writer[R[j].prefix] = R[j].record

\* C11: records are applied to the tree strictly in input order within each
\* address family: the rows reach writer.Insert in file order, the file keeps
\* the input order of each family, and when two records carry the same prefix
\* the later one in the input determines the final record at that prefix.
C11_InputOrder == []C11_State /\ [][C11_Step]_vars

\* two routing-table entries for 1.0.0.0/24, AS13335 then AS15169: the run
\* completed and the prefix is bound to the later one
C11_Witness ==
    /\ caller = "js" /\ pc = "exited" /\ exitCode = 0
    /\ Len(InputEntries(FALSE)) = 2
    /\ InputEntries(FALSE)[1].CIDR = InputEntries(FALSE)[2].CIDR
    /\ InputEntries(FALSE)[1].ASN = 13335
    /\ InputEntries(FALSE)[2].ASN = 15169
    /\ lastInsert.called /\ lastInsert.row = 3
    /\ writer[lastInsert.prefix][ASNKey] = T_15169

\* the run reported that the insertion of row j was a duplicate: by what
\* writer.Insert returned for row j, or by a line of its output
DuplicateReported(j) ==
    \/ /\ lastInsert.called /\ lastInsert.row = j
       /\ "outcome" \in DOMAIN lastInsert
       /\ lastInsert.outcome = [kind |-> "Duplicate"]
    \/ \E k \in 1..Len(stdout) :
          stdout[k] = [msg |-> "Duplicate", row |-> j]

\* C13: inserting the same (prefix, record) pair twice is idempotent. When two
\* rows carrying the same prefix and the same record have both been inserted,
\* the second insertion returned no error and reported Duplicate, and the tree
\* holds that record at the prefix, as after the first insertion.
C13_DuplicateIdempotent ==
    \A R \in {Rows} :
        \A i \in Processed : \A j \in Processed :
          ( /\ i < j
            /\ Insertable(R, i) /\ Insertable(R, j)
            /\ R[i].prefix = R[j].prefix
            /\ R[i].record = R[j].record
            /\ LastForPrefix(R, i, j - 1) )
          => /\ LastForPrefix(R, j, pos - 1)
                => /\ R[j].prefix \in DOMAIN writer
                   /\ writer[R[j].prefix] = R[i].record
             /\ (lastInsert.called /\ lastInsert.row = j)
                => /\ lastInsert.err = ""
                   /\ DuplicateReported(j)

\* C14: value pool deduplication. At every point of a build the pool holds at
\* most one entry per distinct record content, every data node refers to the
\* entry that encodes its record, and data nodes with the same record refer to
\* the same entry.
C14_PoolDeduplicated ==
    /\ \A a \in 1..Len(pool.entries) : \A b \in 1..Len(pool.entries) :
          pool.entries[a] = pool.entries[b] => a = b
    /\ DOMAIN pool.ref = DOMAIN writer
    /\ \A p \in DOMAIN writer :
          /\ pool.ref[p] \in 1..Len(pool.entries)
          /\ pool.entries[pool.ref[p]] = Encode(writer[p])
    /\ \A p \in DOMAIN writer : \A q \in DOMAIN writer :
          writer[p] = writer[q] => pool.ref[p] = pool.ref[q]

\* the same identifier and name were inserted at two different prefixes: one
\* pool entry, referred to by both data nodes
C14_Witness ==
    /\ Cardinality(DOMAIN writer) = 2
    /\ \A p \in DOMAIN writer : \A q \in DOMAIN writer : writer[p] = writer[q]
    /\ recordCount = 2
    /\ Len(pool.entries) = 1
    /\ \A p \in DOMAIN writer : pool.ref[p] = 1

C15_Step ==
    lastInsert' # lastInsert
    => /\ lastInsert'.called
       /\ lastInsert'.err = ""
          => /\ DenyReason(lastInsert'.prefix) = ""
             /\ lastInsert'.prefix \in DOMAIN writer'
             /\ writer'[lastInsert'.prefix] = lastInsert'.record
       /\ DenyReason(lastInsert'.prefix) # "" => lastInsert'.err # ""
       /\ lastInsert'.err # "" => writer' = writer

FatalFailure ==
    \/ stderr # ""
    \/ lastInsert.called /\ lastInsert.err \notin ReservedConditions \cup {""}
    \/ outFile.exists /\ ~outFile.complete

\* C16: the process exits with status 0 exactly when the build completes
\* without a fatal failure, whatever the number of skipped records: then every
\* row has been read and the output holds the serialized tree; it exits with
\* a nonzero status on a fatal insertion error or a serialization failure;
\* and generateMMDB returns when the status is 0 and throws when it is not.
C16_ExitStatus ==
    /\ pc = "exited"
       => /\ exitCode \in {0, 1}
          /\ exitCode = 0 <=> ~FatalFailure
          /\ exitCode = 0
             => /\ pos > Len(csvFile)
                /\ outFile = [exists |-> TRUE, complete |-> TRUE,
                              content |-> Serialize(writer)]
    /\ pc # "exited" => exitCode = -1 /\ result = NoResult
    /\ result.kind = "returned" => exitCode = 0
    /\ result.kind = "thrown" => exitCode = 1

\* a run in which a row was skipped and a row was accepted exited with 0
C16_Witness ==
    /\ pc = "exited" /\ exitCode = 0
    /\ SkipCount >= 1
    /\ recordCount >= 1
    /\ ~FatalFailure

\* number of rows of R that reached the tree, of family fam
AcceptedOf(R, fam) ==
    Cardinality({i \in 2..Len(R) : Insertable(R, i) /\ R[i].prefix.fam = fam})

\* C17: the counts reported for a build are counts of accepted records: the
\* total the binary prints and the total generateMMDB returns equal the number
\* of records inserted into the tree, the IPv4 and IPv6 counts equal the
\* number of accepted records of each family, and they sum to the total.
C17_CountsAreAccepted ==
    \A R \in {Rows} :
      /\ (pc = "exited" /\ exitCode = 0)
         => /\ recordCount = AcceptedOf(R, "v4") + AcceptedOf(R, "v6")
            /\ \E k \in 1..Len(stdout) :
                  stdout[k] = [msg |-> "Total records processed",
                               count |-> recordCount]
      /\ result.kind = "returned"
         => /\ result.totalCount = recordCount
            /\ result.ipv4Count = AcceptedOf(R, "v4")
            /\ result.ipv6Count = AcceptedOf(R, "v6")
            /\ result.ipv4Count + result.ipv6Count = result.totalCount

----------------------------------------------------------------------------
(* Prefix normalization *)

T_HostBits == <<"1", "0", ".", "0", ".", "0", ".", "5", "/", "2", "4">>

T_Mapped == <<":", ":", "f", "f", "f", "f", ":", "1", "0", "2", ":", "3", "0", "4", "/", "1", "2", "0">>

\* every bit of the address beyond the prefix length is zero
HostBitsZero(c) ==
    \A i \in 1..Len(c.addr) :
        c.addr[i] % Pow2(PartBits(c.fam) - KeptBits(c.fam, i, c.len)) = 0

\* the parsed prefix of the text s keeps the bits of the address written in s
\* up to the written length, and no others
NormalizedFrom(s, c) ==
    LET i == IndexByte(s, "/")
        a == ParseAddr(SubSeq(s, 1, i - 1))
    IN  /\ i > 0 /\ a.ok
        /\ c.fam = a.fam
        /\ Len(c.addr) = Len(a.addr)
        /\ c.len = DecValue(SubSeq(s, i + 1, Len(s)), 0)
        /\ HostBitsZero(c)
        /\ \A j \in 1..Len(c.addr) :
              LET h == Pow2(PartBits(c.fam) - KeptBits(c.fam, j, c.len))
              IN  c.addr[j] <= a.addr[j] /\ a.addr[j] - c.addr[j] < h

Parsed == ret.called /\ ret.fn \in {"ParseCIDR", "String", "ParseAgain"} /\ ret.parsed.ok

----------------------------------------------------------------------------
(* Validation of prefixes and origin identifiers *)

\* four octets, each a decimal number in 0..255
DottedQuad(s) ==
    LET f == Split(s, ".")
    IN  /\ Len(f) = 4
        /\ \A i \in 1..4 : AllDigits(f[i]) /\ DecValue(f[i], 0) <= 255

\* a text with a separator, a decimal length within the range of the family
\* and a well-formed address of that family
WellFormedCIDR(s) ==
    LET i == IndexByte(s, "/")
        a == SubSeq(s, 1, i - 1)
        m == SubSeq(s, i + 1, Len(s))
    IN  /\ i > 0
        /\ AllDigits(m)
        /\ \/ DottedQuad(a) /\ DecValue(m, 0) <= 32
           \/ ParseIPv6(a).ok /\ DecValue(m, 0) <= 128

\* C19: isValidCIDR accepts a text exactly when it has a separator, a numeric
\* length within [0,32] for IPv4 or [0,128] for IPv6 and a well-formed address
\* of its family.
C19_AcceptsExactlyWellFormed ==
    (ret.called /\ ret.fn = "isValidCIDR")
        => (ret.valid <=> WellFormedCIDR(arg.text))

\* the integer an argument denotes lies in 1..4294967295
DenotesASN(asn) ==
    IF asn.kind = "text"
    THEN /\ AllDigits(asn.text)
         /\ StripZeros(asn.text) # Zero
         /\ DecLeq(StripZeros(asn.text), MaxUint32)
    ELSE /\ ~asn.num.nan /\ ~asn.num.frac /\ ~asn.num.neg
         /\ asn.num.int # Zero
         /\ DecLeq(asn.num.int, MaxUint32)

\* C20: isValidASN(x) is true exactly when x, a number or a decimal string,
\* denotes an integer n with 1 <= n <= 4294967295.
C20_TrueExactlyForASN ==
    (ret.called /\ ret.fn = "isValidASN")
        => (ret.valid <=> DenotesASN(arg))

----------------------------------------------------------------------------
(* The temporary CSV file of generateMMDB *)

\* C26: when generateMMDB has finished, by returning or by throwing because
\* the binary failed, the temporary CSV file no longer exists, unless the
\* cleanup itself failed, which leaves the generation successful.
C26_TempFileRemoved ==
    result.kind # "none" => (~tempCsv \/ result.kind = "returned")

----------------------------------------------------------------------------
(* cleanOldFiles: version retention *)

\* the database generation and the validation calls are not running
MmdbIdle ==
    /\ caller = "none"
    /\ pc = "idle"
    /\ rawTable = <<>>
    /\ tableData = <<>>
    /\ csvFile = <<>>
    /\ pos = 1
    /\ fieldsPerRecord = 0
    /\ writer = EmptyTree
    /\ recordCount = 0
    /\ stdout = <<>>
    /\ stderr = ""
    /\ exitCode = -1
    /\ outFile = NoFile
    /\ destBefore = NoFile
    /\ lastInsert = NoInsert
    /\ pool = EmptyPool
    /\ result = NoResult
    /\ arg = NoArg
    /\ ret = NoRet
    /\ tempCsv = FALSE

\* files listed beyond the number kept
MaxExtra == 2

DataTypes == {"table", "asns", "tags"}

\* RETENTION_POLICIES[dataType].keep
Keep(dataType) == IF dataType = "table" THEN 24 ELSE 3

\* text lit occurs in s at position i
OccursAt(s, lit, i) ==
    /\ i >= 1
    /\ i + Len(lit) - 1 <= Len(s)
    /\ SubSeq(s, i, i + Len(lit) - 1) = lit

\* text lit occurs in s at some position from i on
OccursFrom(s, lit, i) == \E j \in i..Len(s) : OccursAt(s, lit, j)

T_tablePrefix == <<"t", "a", "b", "l", "e", "-">>

T_asnsPrefix == <<"a", "s", "n", "s", "-">>

T_tagsPrefix == <<"t", "a", "g", "s", "-">>

T_jsonl == <<".", "j", "s", "o", "n", "l">>

T_csv == <<".", "c", "s", "v">>

\* RETENTION_POLICIES[dataType].pattern.test(name):
\* /^table-.*\.jsonl.*$/, /^asns-.*\.csv.*$/, /^tags-.*-.*\.csv.*$/
PatternTest(dataType, name) ==
    IF dataType = "table"
    THEN OccursAt(name, T_tablePrefix, 1) /\ OccursFrom(name, T_jsonl, 7)
    ELSE IF dataType = "asns"
    THEN OccursAt(name, T_asnsPrefix, 1) /\ OccursFrom(name, T_csv, 6)
    ELSE /\ OccursAt(name, T_tagsPrefix, 1)
         /\ \E j \in 6..Len(name) :
               name[j] = "-" /\ OccursFrom(name, T_csv, j + 1)

\* the list with file f put before the first file that is strictly older
\* (Array.prototype.sort is stable: equal times keep their order)
RECURSIVE InsertLatestFirst(_, _)
InsertLatestFirst(sorted, f) ==
    IF sorted = <<>> THEN <<f>>
    ELSE IF Head(sorted).mtime < f.mtime THEN <<f>> \o sorted
    ELSE <<Head(sorted)>> \o InsertLatestFirst(Tail(sorted), f)

\* matchedFiles.sort((a, b) => b.mtime - a.mtime)
RECURSIVE SortLatestFirst(_)
SortLatestFirst(files) ==
    IF files = <<>> THEN <<>>
    ELSE InsertLatestFirst(SortLatestFirst(SubSeq(files, 1, Len(files) - 1)),
                           files[Len(files)])

\* variant: oldest first (a.mtime - b.mtime)
GetFilesOldestFirst(dataType, dir) ==
    Reverse(SortLatestFirst(SelectSeq(dir, LAMBDA f : PatternTest(dataType, f.name))))

\* getFilesByModTime(directory, pattern) when the directory can be read
GetFilesByModTime(dataType, dir) ==
    SortLatestFirst(SelectSeq(dir, LAMBDA f : PatternTest(dataType, f.name)))

\* files.slice(n)
Slice(files, n) == SubSeq(files, n + 1, Len(files))

\* the name of the k-th data file of a type
DataFileName(dataType, k) ==
    IF dataType = "table" THEN T_tablePrefix \o NumberToText(k) \o T_jsonl
    ELSE IF dataType = "asns" THEN T_asnsPrefix \o NumberToText(k) \o T_csv \o <<".", "g", "z">>
    ELSE T_tagsPrefix \o <<"d", "c", "-">> \o NumberToText(k) \o T_csv

\* names in a data directory that are not versions of its data file
OtherNames(dataType) ==
    { <<"i", "n", "d", "e", "x", "-", "m", "e", "t", "a", ".", "j", "s", "o", "n">>,
      IF dataType = "table" THEN <<"t", "a", "b", "l", "e", ".", "m", "m", "d", "b">>
      ELSE IF dataType = "asns" THEN <<"a", "s", "n", "s", ".", "c", "s", "v">>
      ELSE <<"t", "a", "g", "s", "-", "d", "c", ".", "c", "s", "v">> }

\* modification times of n files in directory order: rising, falling, or
\* with equal times among them
Mtimes(scheme, n, k) ==
    IF scheme = "rising" THEN k
    ELSE IF scheme = "falling" THEN n + 1 - k
    ELSE ((k * 7) % 5) + 1

\* a directory: n data files followed by the other files
Directory(dataType, n, scheme, others) ==
    [k \in 1..n |-> [name |-> DataFileName(dataType, k), mtime |-> Mtimes(scheme, n, k)]]
    \o others

FileCounts(dataType) ==
    {0, Keep(dataType) - 1} \cup (Keep(dataType)..(Keep(dataType) + MaxExtra))

OtherFiles(dataType) ==
    {<<>>} \cup {<<[name |-> nm, mtime |-> 0]>> : nm \in OtherNames(dataType)}

InitClean ==
    /\ MmdbIdle
    /\ IdleBut("cleaner")
    /\ \E dataType \in DataTypes, scheme \in {"rising", "falling", "mixed"} :
       \E n \in FileCounts(dataType), others \in OtherFiles(dataType) :
       \E exists \in BOOLEAN :
          cleaner = [pc |-> "cleanOldFiles",
                     dataType |-> dataType,
                     exists |-> exists,
                     dir |-> IF exists THEN Directory(dataType, n, scheme, others)
                             ELSE <<>>,
                     before |-> IF exists THEN Directory(dataType, n, scheme, others)
                                ELSE <<>>,
                     listed |-> FALSE,
                     filesToDelete |-> <<>>,
                     deleted |-> <<>>,
                     deletedCount |-> 0,
                     unlinkFailed |-> FALSE,
                     ret |-> FALSE]

cleanRest == <<mmdbVars, limiter, retry, http, worktree, push, meta>>

\* cleanOldFiles up to the loop, given the list getFilesByModTime returned
CleanWith(files, listed) ==
    IF Len(files) <= Keep(cleaner.dataType)
    THEN cleaner' = [cleaner EXCEPT !.pc = "done", !.listed = listed, !.ret = FALSE]
    ELSE cleaner' = [cleaner EXCEPT !.pc = "deleting", !.listed = listed,
                        !.filesToDelete = Slice(files, Keep(cleaner.dataType))]

\* the directory is read and every matching file is stat-ed
ListFiles ==
    /\ cleaner.pc = "cleanOldFiles"
    /\ cleaner.exists
    /\ CleanWith(GetFilesByModTime(cleaner.dataType, cleaner.dir), TRUE)
    /\ UNCHANGED cleanRest

\* the directory does not exist: getFilesByModTime returns []
ListMissing ==
    /\ cleaner.pc = "cleanOldFiles"
    /\ ~cleaner.exists
    /\ CleanWith(<<>>, TRUE)
    /\ UNCHANGED cleanRest

\* readdir or stat throws: the error is logged and getFilesByModTime returns []
ListFails ==
    /\ cleaner.pc = "cleanOldFiles"
    /\ cleaner.exists
    /\ CleanWith(<<>>, FALSE)
    /\ UNCHANGED cleanRest

\* await unlink(file.path) succeeds for the next file of filesToDelete
UnlinkOK ==
    /\ cleaner.pc = "deleting"
    /\ cleaner.filesToDelete # <<>>
    /\ LET file == Head(cleaner.filesToDelete)
       IN  cleaner' = [cleaner EXCEPT
                          !.dir = SelectSeq(cleaner.dir, LAMBDA f : f.name # file.name),
                          !.deleted = Append(cleaner.deleted, file),
                          !.deletedCount = cleaner.deletedCount + 1,
                          !.filesToDelete = Tail(cleaner.filesToDelete)]
    /\ UNCHANGED cleanRest

\* unlink throws: the failure is logged and the loop goes on
UnlinkFails ==
    /\ cleaner.pc = "deleting"
    /\ cleaner.filesToDelete # <<>>
    /\ cleaner' = [cleaner EXCEPT !.unlinkFailed = TRUE,
                                  !.filesToDelete = Tail(cleaner.filesToDelete)]
    /\ UNCHANGED cleanRest

\* after the loop: true when at least one file was deleted
CleanReturn ==
    /\ cleaner.pc = "deleting"
    /\ cleaner.filesToDelete = <<>>
    /\ cleaner' = [cleaner EXCEPT !.pc = "done", !.ret = (cleaner.deletedCount > 0)]
    /\ UNCHANGED cleanRest

NextClean ==
    \/ ListFiles
    \/ ListMissing
    \/ ListFails
    \/ UnlinkOK
    \/ UnlinkFails
    \/ CleanReturn

SpecClean == InitClean /\ [][NextClean]_vars

\* the files of the directory whose names match the pattern of the type
Matching(dir) == {dir[i] : i \in {j \in 1..Len(dir) : PatternTest(cleaner.dataType, dir[j].name)}}

Deleted == {cleaner.deleted[i] : i \in 1..Len(cleaner.deleted)}

\* at most keep matching files remain, none of them older than a deleted
\* file, and every deleted file matched the pattern
Retained ==
    /\ Cardinality(Matching(cleaner.dir)) <= Keep(cleaner.dataType)
    /\ \A f \in Matching(cleaner.dir), d \in Deleted : f.mtime >= d.mtime
    /\ \A d \in Deleted : PatternTest(cleaner.dataType, d.name)
    /\ \A i \in 1..Len(cleaner.before) :
          ~PatternTest(cleaner.dataType, cleaner.before[i].name)
              => \E j \in 1..Len(cleaner.dir) : cleaner.dir[j] = cleaner.before[i]

----------------------------------------------------------------------------
(* limitConcurrency *)

\* length of the tasks list
MaxTasks == 3

\* the value task k resolves to
TaskValue(k) == 10 * k

\* the sequence q without its first occurrence of x
\* (executing.splice(executing.indexOf(promise), 1))
RECURSIVE Splice(_, _)
Splice(q, x) ==
    IF q = <<>> THEN <<>>
    ELSE IF Head(q) = x THEN Tail(q)
    ELSE <<Head(q)>> \o Splice(Tail(q), x)

InitLimit ==
    /\ MmdbIdle
    /\ IdleBut("limiter")
    /\ \E n \in 0..MaxTasks, c \in 1..MaxTasks :
          limiter = [pc |-> "loop",
                     n |-> n,
                     concurrency |-> c,
                     next |-> 1,
                     status |-> [k \in 1..n |-> "idle"],
                     results |-> <<>>,
                     executing |-> <<>>,
                     started |-> <<>>,
                     settled |-> <<>>,
                     raceWon |-> FALSE,
                     value |-> <<>>]

limitRest == <<mmdbVars, cleaner, retry, http, worktree, push, meta>>

\* some promise in executing has rejected (a rejected promise is never taken out)
HasRejected(status, executing) ==
    \E j \in 1..Len(executing) : status[executing[j]] = "rejected"

\* variant: the loop never waits for a running task
StartTaskNoWait ==
    /\ limiter.pc = "loop"
    /\ limiter.next <= limiter.n
    /\ LET k == limiter.next
       IN  limiter' = [limiter EXCEPT
                          !.status[k] = "running",
                          !.started = Append(limiter.started, k),
                          !.results = Append(limiter.results, k),
                          !.executing = Append(limiter.executing, k),
                          !.next = k + 1]
    /\ UNCHANGED limitRest

\* one turn of the loop: the task is called, its promise is pushed on results
\* and executing, and the loop waits for Promise.race(executing) when
\* executing has reached the limit; the race rejects at once when executing
\* holds a rejected promise
StartTask ==
    /\ limiter.pc = "loop"
    /\ limiter.next <= limiter.n
    /\ LET k == limiter.next
       IN  limiter' = [limiter EXCEPT
                          !.status[k] = "running",
                          !.started = Append(limiter.started, k),
                          !.results = Append(limiter.results, k),
                          !.executing = Append(limiter.executing, k),
                          !.next = k + 1,
                          !.raceWon = FALSE,
                          !.pc = IF Len(limiter.executing) + 1 < limiter.concurrency
                                 THEN "loop"
                                 ELSE IF HasRejected(limiter.status, limiter.executing)
                                 THEN "rejected" ELSE "race"]
    /\ UNCHANGED limitRest

\* after the last task: return Promise.all(results)
AwaitAll ==
    /\ limiter.pc = "loop"
    /\ limiter.next > limiter.n
    /\ limiter' = [limiter EXCEPT
                      !.pc = IF HasRejected(limiter.status, limiter.executing)
                             THEN "rejected" ELSE "all"]
    /\ UNCHANGED limitRest

\* while the function waits, a running task fulfils: its then-callback takes
\* its promise out of executing
Fulfil ==
    /\ limiter.pc \in {"race", "all"}
    /\ \E k \in 1..limiter.n :
          /\ limiter.status[k] = "running"
          /\ limiter' = [limiter EXCEPT
                            !.status[k] = "fulfilled",
                            !.settled = Append(limiter.settled, k),
                            !.raceWon = TRUE,
                            !.executing = Splice(limiter.executing, k)]
    /\ UNCHANGED limitRest

\* while the function waits, a running task rejects: Promise.all, or a
\* Promise.race that no task has won yet, rejects and so does limitConcurrency
Reject ==
    /\ limiter.pc \in {"race", "all"}
    /\ \E k \in 1..limiter.n :
          /\ limiter.status[k] = "running"
          /\ limiter' = [limiter EXCEPT
                            !.status[k] = "rejected",
                            !.settled = Append(limiter.settled, k),
                            !.pc = IF limiter.pc = "race" /\ limiter.raceWon
                                   THEN "race" ELSE "rejected"]
    /\ UNCHANGED limitRest

\* Promise.race(executing) has resolved: the loop goes on
RaceResolved ==
    /\ limiter.pc = "race"
    /\ limiter.raceWon
    /\ limiter' = [limiter EXCEPT !.pc = "loop", !.raceWon = FALSE]
    /\ UNCHANGED limitRest

\* Promise.all(results) resolves to the values in the order of results
AllResolved ==
    /\ limiter.pc = "all"
    /\ \A k \in 1..limiter.n : limiter.status[k] = "fulfilled"
    /\ limiter' = [limiter EXCEPT
                      !.pc = "resolved",
                      !.value = [j \in 1..Len(limiter.results) |->
                                    TaskValue(limiter.results[j])]]
    /\ UNCHANGED limitRest

NextLimit ==
    \/ StartTask
    \/ AwaitAll
    \/ Fulfil
    \/ Reject
    \/ RaceResolved
    \/ AllResolved

SpecLimit == InitLimit /\ [][NextLimit]_vars

\* tasks started and not yet settled
Running == {k \in 1..limiter.n : limiter.status[k] = "running"}

\* C22: limitConcurrency never has more than c tasks started and not yet
\* settled, starts every task exactly once in list order when no task fails,
\* and resolves to the results in the order of the tasks list.
C22_LimitAndOrder ==
    limiter.pc # "idle" =>
        /\ Cardinality(Running) <= limiter.concurrency
        /\ limiter.started = [j \in 1..Len(limiter.started) |-> j]
        /\ limiter.pc = "resolved" =>
              /\ Len(limiter.started) = limiter.n
              /\ limiter.value = [k \in 1..limiter.n |-> TaskValue(k)]
        /\ limiter.pc = "all" => Len(limiter.started) = limiter.n

C22_Witness ==
    /\ limiter.pc = "resolved"
    /\ limiter.n = 3
    /\ limiter.concurrency = 2
    /\ limiter.settled = <<2, 3, 1>>
    /\ limiter.value = <<10, 20, 30>>

----------------------------------------------------------------------------
(* retryWithBackoff *)

\* largest maxRetries
MaxRetries == 2

RECURSIVE Pow(_, _)
Pow(b, e) == IF e = 0 THEN 1 ELSE b * Pow(b, e - 1)

\* Math.min(a, b)
Min(a, b) == IF a < b THEN a ELSE b

InitRetry ==
    /\ MmdbIdle
    /\ IdleBut("retry")
    /\ \E maxRetries \in 0..MaxRetries, initialDelay \in {1, 2, 5} :
       \E maxDelay \in {3, 4}, backoffFactor \in {1, 2, 3} :
          retry = [pc |-> "call",
                   maxRetries |-> maxRetries,
                   initialDelay |-> initialDelay,
                   maxDelay |-> maxDelay,
                   backoffFactor |-> backoffFactor,
                   attempt |-> 0,
                   delay |-> initialDelay,
                   calls |-> 0,
                   waits |-> <<>>,
                   lastError |-> 0,
                   outcome |-> "none"]

retryRest == <<mmdbVars, cleaner, limiter, http, worktree, push, meta>>

\* await operation() resolves: its result is returned
OperationSucceeds ==
    /\ retry.pc = "call"
    /\ retry' = [retry EXCEPT !.calls = retry.calls + 1,
                              !.pc = "returned",
                              !.outcome = "result"]
    /\ UNCHANGED retryRest

\* operation() rejects on the last attempt, or shouldRetry(error) is false:
\* the error is thrown
OperationFailsThrow ==
    /\ retry.pc = "call"
    /\ \E shouldRetry \in BOOLEAN :
          /\ retry.attempt = retry.maxRetries \/ ~shouldRetry
          /\ retry' = [retry EXCEPT !.calls = retry.calls + 1,
                                    !.lastError = retry.calls + 1,
                                    !.pc = "thrown",
                                    !.outcome = "error"]
    /\ UNCHANGED retryRest

\* operation() rejects and is to be retried: a timer of delay ms is awaited
OperationFailsRetry ==
    /\ retry.pc = "call"
    /\ retry.attempt < retry.maxRetries
    /\ retry' = [retry EXCEPT !.calls = retry.calls + 1,
                              !.lastError = retry.calls + 1,
                              !.waits = Append(retry.waits, retry.delay),
                              !.pc = "wait"]
    /\ UNCHANGED retryRest

\* the timer fires: the delay is multiplied and capped, the next attempt starts
TimerFires ==
    /\ retry.pc = "wait"
    /\ retry' = [retry EXCEPT
                    !.delay = Min(retry.delay * retry.backoffFactor, retry.maxDelay),
                    !.attempt = retry.attempt + 1,
                    !.pc = "call"]
    /\ UNCHANGED retryRest

NextRetry ==
    \/ OperationSucceeds
    \/ OperationFailsThrow
    \/ OperationFailsRetry
    \/ TimerFires

SpecRetry == InitRetry /\ [][NextRetry]_vars

\* C23: retryWithBackoff calls the operation at most maxRetries + 1 times,
\* rethrows the last error with no further wait, and the wait before retry k
\* is min(initialDelay * backoffFactor^(k-1), maxDelay), so no wait exceeds
\* maxDelay.
C23_CallsAndWaits ==
    retry.pc # "idle" =>
        /\ retry.calls <= retry.maxRetries + 1
        /\ retry.pc = "thrown" =>
              /\ retry.lastError = retry.calls
              /\ Len(retry.waits) = retry.calls - 1
        /\ retry.pc = "returned" => Len(retry.waits) = retry.calls - 1
        /\ \A k \in 1..Len(retry.waits) :
              /\ retry.waits[k] = Min(retry.initialDelay * Pow(retry.backoffFactor, k - 1),
                                      retry.maxDelay)
              /\ retry.waits[k] <= retry.maxDelay

----------------------------------------------------------------------------
(* httpRequest *)

InitHttp ==
    /\ MmdbIdle
    /\ IdleBut("http")
    /\ \E maxRetries \in 0..(MaxRetries + 1), retryDelay \in {1, 2} :
          http = [pc |-> "request",
                  maxRetries |-> maxRetries,
                  retryDelay |-> retryDelay,
                  attempt |-> 0,
                  delay |-> retryDelay,
                  requests |-> <<>>,
                  waits |-> <<>>,
                  lastError |-> 0,
                  outcome |-> "none"]

httpRest == <<mmdbVars, cleaner, limiter, retry, worktree, push, meta>>

\* what one call of fetch can give: a response with an ok status, a response
\* with another status, or a rejection (network error)
FetchOutcomes == {"ok", "status", "network"}

\* variant: the delay is awaited after the final failed attempt too
RequestFailsAlwaysWait ==
    /\ http.pc = "request"
    /\ http.attempt <= http.maxRetries
    /\ \E o \in FetchOutcomes \ {"ok"} :
          http' = [http EXCEPT
                      !.requests = Append(http.requests, o),
                      !.lastError = Len(http.requests) + 1,
                      !.waits = Append(http.waits, http.delay),
                      !.outcome = IF http.attempt < http.maxRetries
                                  THEN "none" ELSE "error",
                      !.pc = IF http.attempt < http.maxRetries
                             THEN "wait" ELSE "thrown"]
    /\ UNCHANGED httpRest

\* makeRequest resolves: fetch gave a response with an ok status
RequestOK ==
    /\ http.pc = "request"
    /\ http.attempt <= http.maxRetries
    /\ http' = [http EXCEPT !.requests = Append(http.requests, "ok"),
                            !.pc = "returned",
                            !.outcome = "response"]
    /\ UNCHANGED httpRest

\* makeRequest throws (fetch rejected, or the status is not ok): the delay is
\* awaited when attempts are left, otherwise the loop ends and lastError is
\* thrown
RequestFails ==
    /\ http.pc = "request"
    /\ http.attempt <= http.maxRetries
    /\ \E o \in FetchOutcomes \ {"ok"} :
          http' = [http EXCEPT
                      !.requests = Append(http.requests, o),
                      !.lastError = Len(http.requests) + 1,
                      !.waits = IF http.attempt < http.maxRetries
                                THEN Append(http.waits, http.delay)
                                ELSE http.waits,
                      !.outcome = IF http.attempt < http.maxRetries
                                  THEN "none" ELSE "error",
                      !.pc = IF http.attempt < http.maxRetries
                             THEN "wait" ELSE "thrown"]
    /\ UNCHANGED httpRest

\* the timer fires: the delay is doubled and the next attempt starts
DelayElapsed ==
    /\ http.pc = "wait"
    /\ http' = [http EXCEPT !.delay = http.delay * 2,
                            !.attempt = http.attempt + 1,
                            !.pc = "request"]
    /\ UNCHANGED httpRest

NextHttp ==
    \/ RequestOK
    \/ RequestFails
    \/ DelayElapsed

SpecHttp == InitHttp /\ [][NextHttp]_vars

\* C24: httpRequest makes at most maxRetries + 1 requests, returns the first
\* ok response without further requests, treats a non-ok status like a thrown
\* error, waits retryDelay * 2^(k-1) before retry k, does not wait after the
\* final failed attempt, and throws the error of the last attempt when all
\* attempts fail.
C24_RequestsAndWaits ==
    http.pc # "idle" =>
        /\ Len(http.requests) <= http.maxRetries + 1
        /\ \A j \in 1..Len(http.requests) :
              http.requests[j] = "ok" => (j = Len(http.requests) /\ http.pc = "returned")
        /\ http.pc = "returned" => http.requests[Len(http.requests)] = "ok"
        /\ \A k \in 1..Len(http.waits) :
              http.waits[k] = http.retryDelay * Pow2(k - 1)
        /\ Len(http.waits) <= http.maxRetries
        /\ http.pc = "wait" => Len(http.waits) = Len(http.requests)
        /\ http.pc \in {"returned", "thrown"} => Len(http.waits) = Len(http.requests) - 1
        /\ http.pc = "thrown" =>
              /\ Len(http.requests) = http.maxRetries + 1
              /\ \A j \in 1..Len(http.requests) : http.requests[j] # "ok"
              /\ http.lastError = Len(http.requests)

C24_Witness ==
    /\ http.pc = "thrown"
    /\ http.maxRetries = 3
    /\ http.retryDelay = 2
    /\ http.requests = <<"status", "network", "status", "status">>
    /\ http.waits = <<2, 4, 8>>

----------------------------------------------------------------------------
(* withWorktree *)

\* what the callback does: return a value, or throw
CallbackOutcomes == {[kind |-> "returns", value |-> v] : v \in {"false", "true"}}
                    \cup {[kind |-> "throws", value |-> "callback error"]}

\* the words of the `git worktree add` command withWorktree builds
AddArgs(force, detach, ref) ==
    <<"git", "worktree", "add">>
    \o (IF force THEN <<"--force">> ELSE <<>>)
    \o (IF detach THEN <<"--detach">> ELSE <<>>)
    \o <<"worktreePath">>
    \o (IF ~detach THEN <<ref>> ELSE <<>>)

InitWorktree ==
    /\ MmdbIdle
    /\ IdleBut("worktree")
    /\ \E cb \in CallbackOutcomes, detach \in BOOLEAN, force \in BOOLEAN :
          worktree = [pc |-> "withWorktree",
                      callback |-> cb,
                      detach |-> detach,
                      force |-> force,
                      args |-> <<>>,
                      dirExists |-> FALSE,
                      registered |-> FALSE,
                      called |-> FALSE,
                      removeFailed |-> FALSE,
                      pending |-> [kind |-> "none"],
                      outcome |-> [kind |-> "none"]]

worktreeRest == <<mmdbVars, cleaner, limiter, retry, http, push, meta>>

\* createTempWorktreePath: mkdtempSync makes the temporary directory, and the
\* command is put together
CreateTempWorktreePath ==
    /\ worktree.pc = "withWorktree"
    /\ worktree' = [worktree EXCEPT
                       !.dirExists = TRUE,
                       !.args = AddArgs(worktree.force, worktree.detach, "auto-update"),
                       !.pc = "add"]
    /\ UNCHANGED worktreeRest

\* mkdtempSync throws: no directory is made
CreateTempWorktreePathFails ==
    /\ worktree.pc = "withWorktree"
    /\ worktree' = [worktree EXCEPT
                       !.pc = "exited",
                       !.outcome = [kind |-> "throws", value |-> "mkdtemp failed"]]
    /\ UNCHANGED worktreeRest

\* runCommand("git worktree add ...") succeeds: the try block is entered
WorktreeAdd ==
    /\ worktree.pc = "add"
    /\ worktree' = [worktree EXCEPT !.registered = TRUE, !.pc = "callback"]
    /\ UNCHANGED worktreeRest

\* runCommand("git worktree add ...") fails: runCommand throws, before the try
WorktreeAddFails ==
    /\ worktree.pc = "add"
    /\ worktree' = [worktree EXCEPT
                       !.pc = "exited",
                       !.outcome = [kind |-> "throws",
                                    value |-> "git worktree add failed"]]
    /\ UNCHANGED worktreeRest

\* return callback(worktreePath): the value or the exception is held while
\* the finally block runs
Callback ==
    /\ worktree.pc = "callback"
    /\ worktree' = [worktree EXCEPT !.called = TRUE,
                                    !.pending = worktree.callback,
                                    !.pc = "remove"]
    /\ UNCHANGED worktreeRest

\* finally: `git worktree remove --force` succeeds and deletes the directory
WorktreeRemove ==
    /\ worktree.pc = "remove"
    /\ worktree' = [worktree EXCEPT !.registered = FALSE,
                                    !.dirExists = FALSE,
                                    !.pc = "rm"]
    /\ UNCHANGED worktreeRest

\* finally: `git worktree remove` fails; allowFailure lets runCommand return ""
WorktreeRemoveFails ==
    /\ worktree.pc = "remove"
    /\ worktree' = [worktree EXCEPT !.removeFailed = TRUE, !.pc = "rm"]
    /\ UNCHANGED worktreeRest

\* finally: rmSync(worktreePath, { recursive, force }) deletes the directory
\* and the held value is returned or the held exception thrown
RmSync ==
    /\ worktree.pc = "rm"
    /\ worktree' = [worktree EXCEPT !.dirExists = FALSE,
                                    !.pc = "exited",
                                    !.outcome = worktree.pending]
    /\ UNCHANGED worktreeRest

\* finally: rmSync throws (the directory cannot be deleted): its exception
\* replaces the held value or exception
RmSyncFails ==
    /\ worktree.pc = "rm"
    /\ worktree.dirExists
    /\ worktree' = [worktree EXCEPT
                       !.pc = "exited",
                       !.outcome = [kind |-> "throws", value |-> "rmSync failed"]]
    /\ UNCHANGED worktreeRest

NextWorktree ==
    \/ CreateTempWorktreePath
    \/ CreateTempWorktreePathFails
    \/ WorktreeAdd
    \/ WorktreeAddFails
    \/ Callback
    \/ WorktreeRemove
    \/ WorktreeRemoveFails
    \/ RmSync
    \/ RmSyncFails

SpecWorktree == InitWorktree /\ [][NextWorktree]_vars

\* C25: on every exit path of withWorktree (the callback returns, the callback
\* throws, or `git worktree add` fails) the temporary directory no longer
\* exists, and the callback's return value or exception is what the caller
\* receives, also when `git worktree remove` fails.
C25_AlwaysCleansUp ==
    worktree.pc = "exited" =>
        /\ ~worktree.dirExists
        /\ worktree.called => worktree.outcome = worktree.callback

----------------------------------------------------------------------------
(* pushToAutoUpdate *)

\* largest timestamp of an index-meta.json
MaxStamp == 2

\* ["table", "asns", "tags"], in the order pushToAutoUpdate filters them
SyncDirs == <<"table", "asns", "tags">>

DirSet == {SyncDirs[i] : i \in 1..Len(SyncDirs)}

ALLOWED_ROOT_ENTRIES == {"README.md", ".gitignore", "table", "asns", "tags"}

\* root entries a branch can hold besides the allowed ones; the second name
\* has a space in it
UnexpectedNames == {"old.txt", "old data"}

\* the name is one word of a shell command line
OneWord(name) == name # "old data"

\* null
Null == 0

\* a root tree: entry name -> content; the content of a data directory is the
\* timestamp of its index-meta.json (Null when it has none), of a file 0
Trees ==
    UNION { [S \cup {"README.md"} -> 0..1] : S \in SUBSET (DirSet \cup UnexpectedNames) }

BranchTrees ==
    {t \in Trees : \A e \in DOMAIN t : e \notin DirSet => t[e] = 0}

\* getLocalTimestamp(path): null when index-meta.json cannot be read
GetLocalTimestamp(local, path) == local[path]

\* getBranchTimestamp(path, "auto-update"): null when git show gives nothing
GetBranchTimestamp(tree, path) ==
    IF path \in DOMAIN tree THEN tree[path] ELSE Null

\* variant: a directory is synced whenever it has local data
NeedsUpdateAlways(local, tree, path) == GetLocalTimestamp(local, path) # Null

\* needsUpdate(path)
NeedsUpdate(local, tree, path) ==
    LET newTimestamp == GetLocalTimestamp(local, path)
        autoUpdateTimestamp == GetBranchTimestamp(tree, path)
    IN  IF newTimestamp = Null THEN FALSE
        ELSE IF autoUpdateTimestamp = Null THEN TRUE
        ELSE newTimestamp # autoUpdateTimestamp

\* branchNeedsCleanup(): some root entry of the branch is not allowed
BranchNeedsCleanup(tree) ==
    \E entry \in DOMAIN tree : entry \notin ALLOWED_ROOT_ENTRIES

NoTree == [e \in {} |-> 0]

\* the tree without the entries in S
Without(tree, S) == [e \in DOMAIN tree \ S |-> tree[e]]

\* the tree with entry e set to content c
With(tree, e, c) == [x \in DOMAIN tree \cup {e} |-> IF x = e THEN c ELSE tree[x]]

\* the trees `git fetch origin auto-update:auto-update` can leave on the local
\* branch: the one it had (nothing new, or the fetch failed, which is allowed),
\* or one from the remote that already holds the local data and no unexpected
\* entry
Fetched(local, tree) ==
    {tree,
     [e \in (DOMAIN tree \cap ALLOWED_ROOT_ENTRIES)
            \cup {d \in DirSet : NeedsUpdate(local, tree, d)} |->
         IF e \in DirSet /\ NeedsUpdate(local, tree, e) THEN local[e] ELSE tree[e]]}

InitPush ==
    /\ MmdbIdle
    /\ IdleBut("push")
    /\ \E local \in [DirSet -> 0..MaxStamp], tree \in BranchTrees :
          push = [pc |-> "pushToAutoUpdate",
                  local |-> local,
                  branch |-> tree,
                  before |-> tree,
                  dirsToSync |-> <<>>,
                  needsCleanup |-> FALSE,
                  worktreeDir |-> FALSE,
                  created |-> FALSE,
                  files |-> NoTree,
                  index |-> NoTree,
                  synced |-> {},
                  committed |-> FALSE,
                  pushed |-> FALSE,
                  outcome |-> "none"]

pushRest == <<mmdbVars, cleaner, limiter, retry, http, worktree, meta>>

\* the checks at the start: nothing to do returns false at once
CheckNothingToDo ==
    /\ push.pc = "pushToAutoUpdate"
    /\ LET dirsToSync == SelectSeq(SyncDirs,
                             LAMBDA dir : NeedsUpdate(push.local, push.branch, dir))
           needsCleanup == BranchNeedsCleanup(push.branch)
       IN  /\ dirsToSync = <<>> /\ ~needsCleanup
           /\ push' = [push EXCEPT !.pc = "exited", !.outcome = "false"]
    /\ UNCHANGED pushRest

\* the checks at the start find work; git fetch moves the local branch or
\* not, and withWorktree: the temporary directory is made and `git worktree add`
\* checks out the branch
CheckAndAddWorktree ==
    /\ push.pc = "pushToAutoUpdate"
    /\ LET dirsToSync == SelectSeq(SyncDirs,
                             LAMBDA dir : NeedsUpdate(push.local, push.branch, dir))
           needsCleanup == BranchNeedsCleanup(push.branch)
       IN  /\ dirsToSync # <<>> \/ needsCleanup
           /\ \E fetched \in Fetched(push.local, push.branch) :
                 push' = [push EXCEPT !.pc = "cleanupWorktree",
                                      !.dirsToSync = dirsToSync,
                                      !.needsCleanup = needsCleanup,
                                      !.worktreeDir = TRUE,
                                      !.created = TRUE,
                                      !.branch = fetched,
                                      !.files = fetched,
                                      !.index = fetched]
    /\ UNCHANGED pushRest

\* the same, but `git worktree add` fails: withWorktree throws
CheckAndAddWorktreeFails ==
    /\ push.pc = "pushToAutoUpdate"
    /\ LET dirsToSync == SelectSeq(SyncDirs,
                             LAMBDA dir : NeedsUpdate(push.local, push.branch, dir))
           needsCleanup == BranchNeedsCleanup(push.branch)
       IN  /\ dirsToSync # <<>> \/ needsCleanup
           /\ \E fetched \in Fetched(push.local, push.branch) :
                 push' = [push EXCEPT !.pc = "exited",
                                      !.dirsToSync = dirsToSync,
                                      !.needsCleanup = needsCleanup,
                                      !.worktreeDir = TRUE,
                                      !.created = TRUE,
                                      !.branch = fetched,
                                      !.outcome = "thrown"]
    /\ UNCHANGED pushRest

\* cleanupWorktree: every entry that is not allowed is deleted from the
\* worktree with rmSync; `git rm -rf --ignore-unmatch <name>` stages the
\* deletion when the name is one word of the command line and the command
\* does not fail (its failure is allowed)
CleanupWorktree ==
    /\ push.pc = "cleanupWorktree"
    /\ LET unexpected == DOMAIN push.files \ ALLOWED_ROOT_ENTRIES
       IN  \E failed \in SUBSET unexpected :
              push' = [push EXCEPT
                          !.pc = "syncDirectory",
                          !.files = Without(push.files, unexpected),
                          !.index = Without(push.index,
                                        {e \in unexpected : OneWord(e) /\ e \notin failed})]
    /\ UNCHANGED pushRest

\* syncDirectory(dir, worktreePath) for the next directory of dirsToSync: the
\* local directory replaces the one in the worktree and `git add` stages it
SyncDirectory ==
    /\ push.pc = "syncDirectory"
    /\ \E dir \in DirSet :
          /\ dir \notin push.synced
          /\ \E i \in 1..Len(push.dirsToSync) :
                /\ push.dirsToSync[i] = dir
                /\ \A j \in 1..(i - 1) : push.dirsToSync[j] \in push.synced
          /\ push' = [push EXCEPT
                         !.files = With(push.files, dir, push.local[dir]),
                         !.index = With(push.index, dir, push.local[dir]),
                         !.synced = push.synced \cup {dir}]
    /\ UNCHANGED pushRest

\* `git add <dir>/` fails in syncDirectory: the callback throws and the
\* finally block of withWorktree removes the worktree
SyncDirectoryFails ==
    /\ push.pc = "syncDirectory"
    /\ \E i \in 1..Len(push.dirsToSync) : push.dirsToSync[i] \notin push.synced
    /\ push' = [push EXCEPT !.pc = "exited", !.worktreeDir = FALSE,
                            !.outcome = "thrown"]
    /\ UNCHANGED pushRest

AllSynced == \A i \in 1..Len(push.dirsToSync) : push.dirsToSync[i] \in push.synced

\* git status --porcelain prints nothing: the callback returns false
NoChanges ==
    /\ push.pc = "syncDirectory"
    /\ AllSynced
    /\ push.files = push.branch /\ push.index = push.branch
    /\ push' = [push EXCEPT !.pc = "exited", !.worktreeDir = FALSE,
                            !.outcome = "false"]
    /\ UNCHANGED pushRest

\* git commit records the staged tree on the branch
Commit ==
    /\ push.pc = "syncDirectory"
    /\ AllSynced
    /\ push.index # push.branch
    /\ push' = [push EXCEPT !.pc = "push", !.branch = push.index,
                            !.committed = TRUE]
    /\ UNCHANGED pushRest

\* git commit fails (nothing is staged, or git refuses): the callback throws
CommitFails ==
    /\ push.pc = "syncDirectory"
    /\ AllSynced
    /\ push.files # push.branch \/ push.index # push.branch
    /\ push' = [push EXCEPT !.pc = "exited", !.worktreeDir = FALSE,
                            !.outcome = "thrown"]
    /\ UNCHANGED pushRest

\* git push origin auto-update succeeds: the callback returns true
Push ==
    /\ push.pc = "push"
    /\ push' = [push EXCEPT !.pc = "exited", !.worktreeDir = FALSE,
                            !.pushed = TRUE, !.outcome = "true"]
    /\ UNCHANGED pushRest

\* git push fails: the callback throws
PushFails ==
    /\ push.pc = "push"
    /\ push' = [push EXCEPT !.pc = "exited", !.worktreeDir = FALSE,
                            !.outcome = "thrown"]
    /\ UNCHANGED pushRest

NextPush ==
    \/ CheckNothingToDo
    \/ CheckAndAddWorktree
    \/ CheckAndAddWorktreeFails
    \/ CleanupWorktree
    \/ SyncDirectory
    \/ SyncDirectoryFails
    \/ NoChanges
    \/ Commit
    \/ CommitFails
    \/ Push
    \/ PushFails

SpecPush == InitPush /\ [][NextPush]_vars

\* the data directories whose local timestamp exists and differs from the one
\* the branch had when the run started, or the branch had none
Changed ==
    {d \in DirSet :
        /\ push.local[d] # Null
        /\ \/ d \notin DOMAIN push.before
           \/ push.before[d] = Null
           \/ push.before[d] # push.local[d]}

C28_OnlyAllowedAfterCommit ==
    (push.pc # "idle" /\ push.committed) =>
        /\ DOMAIN push.branch \subseteq ALLOWED_ROOT_ENTRIES
        /\ \A e \in ALLOWED_ROOT_ENTRIES \ push.synced :
              /\ e \in DOMAIN push.branch <=> e \in DOMAIN push.before
              /\ e \in DOMAIN push.before => push.branch[e] = push.before[e]

----------------------------------------------------------------------------
(* generateBaseMetadata and the index-meta.json files *)

\* largest number of parsed table entries, and of tags with data
MaxParsed == 2

\* the address family of each parsed table entry
ParsedTables ==
    UNION { [1..n -> {"ipv4", "ipv6"}] : n \in 0..MaxParsed }

CountOf(entries, family) ==
    Cardinality({i \in 1..Len(entries) : entries[i] = family})

\* { ...a, ...b }: the properties of b replace those of a
Spread(a, b) ==
    [k \in DOMAIN a \cup DOMAIN b |-> IF k \in DOMAIN b THEN b[k] ELSE a[k]]

NoFields == [k \in {} |-> 0]

Field(k, v) == [x \in {k} |-> v]

\* generateBaseMetadata({ timestamp, additionalFields }): the object literal
\* { timestamp, version, ...additionalFields, hash_list: {...}, stats: {...} }
GenerateBaseMetadata(timestamp, now, additionalFields) ==
    Spread(Spread(Spread(Spread(Field("timestamp", timestamp), Field("version", "1.0")),
                         additionalFields),
                  Field("hash_list", Field("index-meta.json", "null"))),
           Field("stats", Field("generated_at", now)))

\* the hashes processTableData has collected before it builds the metadata
TableHashList ==
    Spread(Field("table-original.jsonl", "sha256"),
           Spread(Field("ipv4.jsonl", "sha256"),
                  Spread(Field("ipv6.jsonl", "sha256"), Field("table.mmdb", "sha256"))))

InitMeta ==
    /\ MmdbIdle
    /\ IdleBut("meta")
    /\ \E timestamp \in 1..2 :
          \/ \E entries \in ParsedTables :
                meta = [pc |-> "processTableData", caller |-> "processTableData",
                        timestamp |-> timestamp, tableData |-> entries, tags |-> 0,
                        metadata |-> NoFields, file |-> NoFields,
                        written |-> 0, outcome |-> "none"]
          \/ \E tags \in 0..MaxParsed :
                meta = [pc |-> "generateTagsIndex", caller |-> "generateTagsIndex",
                        timestamp |-> timestamp, tableData |-> <<>>, tags |-> tags,
                        metadata |-> NoFields, file |-> NoFields,
                        written |-> 0, outcome |-> "none"]

metaRest == <<mmdbVars, cleaner, limiter, retry, http, worktree, push>>

\* processTableData builds the metadata with its stats in additionalFields
TableMetadata ==
    /\ meta.pc = "processTableData"
    /\ LET stats ==
              Spread(Field("total_entries", Len(meta.tableData)),
                Spread(Field("ipv4_entries", CountOf(meta.tableData, "ipv4")),
                  Spread(Field("ipv6_entries", CountOf(meta.tableData, "ipv6")),
                         Field("generated_at", meta.timestamp))))
       IN  meta' = [meta EXCEPT
                       !.pc = "assign",
                       !.metadata = GenerateBaseMetadata(meta.timestamp, meta.timestamp,
                                                         Field("stats", stats))]
    /\ UNCHANGED metaRest

\* Object.assign(metadata.hash_list, hashList)
AssignHashList ==
    /\ meta.pc = "assign"
    /\ meta' = [meta EXCEPT
                   !.pc = "writeMetadataWithHash",
                   !.metadata = Spread(meta.metadata,
                                   Field("hash_list",
                                         Spread(meta.metadata["hash_list"], TableHashList)))]
    /\ UNCHANGED metaRest

\* generateTagsIndex builds the metadata with total_tags, the hash of
\* tags.txt and stats in additionalFields
TagsMetadata ==
    /\ meta.pc = "generateTagsIndex"
    /\ LET additionalFields ==
              Spread(Field("total_tags", meta.tags),
                Spread(Field("hash_list", Field("tags.txt", "sha256")),
                       Field("stats", Field("generated_at", meta.timestamp))))
       IN  meta' = [meta EXCEPT
                       !.pc = "writeMetadataWithHash",
                       !.metadata = GenerateBaseMetadata(meta.timestamp, meta.timestamp,
                                                         additionalFields)]
    /\ UNCHANGED metaRest

\* writeMetadataWithHash: the first writeFile
WriteInitial ==
    /\ meta.pc = "writeMetadataWithHash"
    /\ meta' = [meta EXCEPT !.pc = "hash", !.file = meta.metadata, !.written = 1]
    /\ UNCHANGED metaRest

\* the first writeFile rejects
WriteInitialFails ==
    /\ meta.pc = "writeMetadataWithHash"
    /\ meta' = [meta EXCEPT !.pc = "exited", !.outcome = "thrown"]
    /\ UNCHANGED metaRest

\* the hash of the file goes into hash_list and the file is written again
WriteUpdated ==
    /\ meta.pc = "hash"
    /\ LET updated ==
              Spread(meta.metadata,
                     Field("hash_list",
                           Spread(meta.metadata["hash_list"],
                                  Field("index-meta.json", "sha256"))))
       IN  meta' = [meta EXCEPT !.pc = "exited", !.metadata = updated,
                                !.file = updated, !.written = 2,
                                !.outcome = "returned"]
    /\ UNCHANGED metaRest

\* calculateSHA256 or the second writeFile rejects
WriteUpdatedFails ==
    /\ meta.pc = "hash"
    /\ meta' = [meta EXCEPT !.pc = "exited", !.outcome = "thrown"]
    /\ UNCHANGED metaRest

NextMeta ==
    \/ TableMetadata
    \/ AssignHashList
    \/ TagsMetadata
    \/ WriteInitial
    \/ WriteInitialFails
    \/ WriteUpdated
    \/ WriteUpdatedFails

SpecMeta == InitMeta /\ [][NextMeta]_vars

\* C29: the index-meta.json that is written keeps the caller's
\* additionalFields: the stats of processTableData, with total_entries =
\* ipv4_entries + ipv6_entries = the number of parsed entries, and the
\* hash_list entry of generateTagsIndex.
C29_AdditionalFieldsKept ==
    (meta.pc # "idle" /\ meta.written > 0) =>
        /\ meta.caller = "processTableData" =>
              LET stats == meta.file["stats"]
              IN  /\ {"total_entries", "ipv4_entries", "ipv6_entries"} \subseteq DOMAIN stats
                  /\ stats["total_entries"] = Len(meta.tableData)
                  /\ stats["total_entries"] = stats["ipv4_entries"] + stats["ipv6_entries"]
        /\ meta.caller = "generateTagsIndex" =>
              /\ "tags.txt" \in DOMAIN meta.file["hash_list"]
              /\ meta.file["total_tags"] = meta.tags

====
